---- MODULE Spec2Model ----
(***************************************************************************)
(* Verification model of pupman: the LXC config store, the findings        *)
(* evaluator (State::evaluate_findings), the application event loop        *)
(* (App::handle_events, App::handle_key_event), the file watcher and the   *)
(* file reader (fs::monitor, fs::reader) and the thread that polls the     *)
(* owners of the rootfs directories.  Strings are TLA+ strings and are     *)
(* taken apart character by character the way the Rust code does it.       *)
(***************************************************************************)
EXTENDS Integers, Sequences, FiniteSets, TLC

VARIABLES
    is_pve,            \* Metadata.is_pve, the strict-duplicates policy
    overflow_checks,   \* build profile: TRUE = u32 overflow panics, FALSE = it wraps
    host_mapping,      \* State.host_mapping
    lxc_configs,       \* State.lxc_configs, insertion ordered (IndexMap)
    findings,          \* State.findings
    fs_metadata,       \* the file system: path -> owner of the path (absent = stat fails)
    pass,              \* outcome of the last evaluate_findings call: "none", "ok", "panic"
    emitted,           \* history: the findings of the last pass in push order (before the sort)
    clean_passes,      \* history: passes completed since the inputs last changed
    events,            \* the app event channel (EventHandler), oldest first
    sent,              \* number of events produced so far
    app_status,        \* App::run: "running", "quit" (Ok), "error" (Err returned), "panic"
    app_host_mapping,  \* App.host_mapping
    app_lxc_configs,   \* App.lxc_configs, insertion ordered (IndexMap)
    app_findings,      \* App.findings
    handled,           \* history: the last event handle_events took, whether its file was in
                       \* the config map, and whether the findings were recomputed
    file_text,         \* the text of a config file
    file_config,       \* the lxc::config::Config parsed from it (None before the parse)
    rendered,          \* the last to_string() of file_config (None after a change of it)
    mutations,         \* number of set and append calls made on file_config
    lookups,           \* history: the resolver invocations of the last pass, in order
    selected_finding,  \* App.selected_finding
    disk,              \* the watched files: path -> content (absent = no such file)
    native,            \* notify events not yet given to FileEventHandler, oldest first
    file_tx,           \* the content-request channel of the Reader, oldest first
    reader_status,     \* fs::reader::start: "running" or "panic"
    fs_changes,        \* number of file system changes made so far
    dir_watcher_rx,    \* the rootfs registration channel of the poll thread, oldest first
    watch_paths,       \* the poll thread's map paths: path -> (rootfs_value, old_md)
    poll_pc,           \* the poll thread: "recv", "sleep", "panic"
    poll_sent,         \* history: the UpdateDir events sent by the poll thread's last step
    requested,         \* history: the rootfs values given to watch_rootfs
    range_case,        \* the operands of one range check
    range_out          \* its verdict in the build and with unbounded integers

vars == <<is_pve, overflow_checks, host_mapping, lxc_configs, findings, fs_metadata,
          pass, emitted, clean_passes, events, sent, app_status, app_host_mapping,
          app_lxc_configs, app_findings, handled, file_text, file_config, rendered,
          mutations, lookups, selected_finding, disk, native, file_tx, reader_status,
          fs_changes, dir_watcher_rx, watch_paths, poll_pc, poll_sent, requested,
          range_case, range_out>>

state_vars == <<is_pve, overflow_checks, host_mapping, lxc_configs, findings,
                fs_metadata, pass, emitted, clean_passes, lookups>>

app_vars == <<events, sent, app_status, app_host_mapping, app_lxc_configs,
              app_findings, handled, selected_finding>>

store_vars == <<file_text, file_config, rendered, mutations>>

pipeline_vars == <<disk, native, file_tx, reader_status, fs_changes>>

poll_vars == <<dir_watcher_rx, watch_paths, poll_pc, poll_sent, requested>>

range_vars == <<range_case, range_out>>

-----------------------------------------------------------------------------
(* Bounds of the model *)

MaxSub == 1        \* entries per host list in the evaluator specification
MaxPasses == 2     \* cap of the clean_passes history counter
MaxHostEntries == 3 \* entries of subuid and subgid together in the host specification
MaxEvents == 3     \* events produced in the event-loop specification
MaxMutations == 2  \* set and append calls in the config-store specification
MaxRequests == 2   \* watch_rootfs calls in the poll specification
MaxFsChanges == 3  \* changes of the watched files in the pipeline specification

\* TLC integers are 32-bit signed, so a u32 is modelled as a word of WordBits
\* bits: the largest value is U32_MODULUS - 1 and arithmetic overflows there
WordBits == 16
U32_MODULUS == 2 ^ WordBits

-----------------------------------------------------------------------------
(* Option / Result values: <<>> is None / Err, <<v>> is Some(v) / Ok(v) *)

None == <<>>
Some(v) == <<v>>
is_some(o) == Len(o) = 1
unwrap(o) == o[1]

-----------------------------------------------------------------------------
(* str helpers *)

char_at(s, i) == SubSeq(s, i, i)

is_whitespace(c) == c \in {" ", "\t", "\r", "\f", "\n"}

RECURSIVE trim_start(_)
trim_start(s) ==
    IF Len(s) > 0 /\ is_whitespace(char_at(s, 1)) THEN trim_start(SubSeq(s, 2, Len(s))) ELSE s

RECURSIVE trim_end(_)
trim_end(s) ==
    IF Len(s) > 0 /\ is_whitespace(char_at(s, Len(s)))
    THEN trim_end(SubSeq(s, 1, Len(s) - 1))
    ELSE s

trim(s) == trim_end(trim_start(s))

starts_with(s, p) == Len(s) >= Len(p) /\ SubSeq(s, 1, Len(p)) = p

ends_with(s, p) == Len(s) >= Len(p) /\ SubSeq(s, Len(s) - Len(p) + 1, Len(s)) = p

\* index of the first occurrence of the character c in s, 0 when there is none
RECURSIVE find_from(_, _, _)
find_from(s, c, i) ==
    IF i > Len(s) THEN 0
    ELSE IF char_at(s, i) = c THEN i
    ELSE find_from(s, c, i + 1)

find(s, c) == find_from(s, c, 1)

split_once(s, c) ==
    LET i == find(s, c)
    IN IF i = 0 THEN None ELSE Some(<<SubSeq(s, 1, i - 1), SubSeq(s, i + 1, Len(s))>>)

RECURSIVE split(_, _)
split(s, c) ==
    LET i == find(s, c)
    IN IF i = 0 THEN <<s>>
       ELSE <<SubSeq(s, 1, i - 1)>> \o split(SubSeq(s, i + 1, Len(s)), c)

strip_cr(s) == IF ends_with(s, "\r") THEN SubSeq(s, 1, Len(s) - 1) ELSE s

\* str::lines: split at "\n" (or "\r\n"); the final line ending is optional
RECURSIVE lines(_)
lines(content) ==
    IF Len(content) = 0 THEN <<>>
    ELSE LET i == find(content, "\n")
         IN IF i = 0 THEN <<content>>
            ELSE <<strip_cr(SubSeq(content, 1, i - 1))>>
                 \o lines(SubSeq(content, i + 1, Len(content)))

DigitValue ==
    "0" :> 0 @@ "1" :> 1 @@ "2" :> 2 @@ "3" :> 3 @@ "4" :> 4 @@
    "5" :> 5 @@ "6" :> 6 @@ "7" :> 7 @@ "8" :> 8 @@ "9" :> 9

RECURSIVE parse_digits(_, _, _)
parse_digits(s, i, acc) ==
    IF i > Len(s) THEN Some(acc)
    ELSE LET c == char_at(s, i)
         IN IF c \notin DOMAIN DigitValue THEN None
            ELSE IF acc > ((U32_MODULUS - 1) - DigitValue[c]) \div 10 THEN None
            ELSE parse_digits(s, i + 1, acc * 10 + DigitValue[c])

\* str::parse::<u32>: an optional "+", then one or more decimal digits, and
\* a value that fits the word
parse_u32(s) ==
    LET digits == IF starts_with(s, "+") THEN SubSeq(s, 2, Len(s)) ELSE s
    IN IF Len(digits) = 0 THEN None ELSE parse_digits(digits, 1, 0)

\* u32 addition: exact when it fits; on overflow a build with overflow checks
\* panics (None) and a build without them wraps
add_u32(a, b) ==
    IF a + b < U32_MODULUS THEN Some(a + b)
    ELSE IF overflow_checks THEN None
    ELSE Some((a + b) % U32_MODULUS)

-----------------------------------------------------------------------------
(* lxc::config *)

Section(name) == [tag |-> "Section", key |-> name, value |-> ""]
KeyValue(key, value) == [tag |-> "KeyValue", key |-> key, value |-> value]
Comment(text) == [tag |-> "Comment", key |-> text, value |-> ""]
EmptyLine == [tag |-> "EmptyLine", key |-> "", value |-> ""]

EmptyIndex == [k \in {} |-> <<>>]

\* variant: every key is recorded under section none
index_push_sectionless(index, k, value) ==
    IF <<None, k[2]>> \in DOMAIN index
    THEN [index EXCEPT ![<<None, k[2]>>] = Append(@, value)]
    ELSE index @@ (<<None, k[2]>> :> <<value>>)

\* index.entry(k).or_default().push(value)
index_push(index, k, value) ==
    IF k \in DOMAIN index
    THEN [index EXCEPT ![k] = Append(@, value)]
    ELSE index @@ (k :> <<value>>)

\* one iteration of the loop of Config::from_str; c carries entries, index
\* and current_section
from_str_line(c, line) ==
    LET trimmed == trim(line)
    IN IF Len(trimmed) = 0
       THEN [c EXCEPT !.entries = Append(@, EmptyLine)]
       ELSE IF starts_with(trimmed, "#") \/ starts_with(trimmed, ";")
       THEN [c EXCEPT !.entries = Append(@, Comment(trimmed))]
       ELSE IF starts_with(trimmed, "[") /\ ends_with(trimmed, "]")
       THEN LET section == SubSeq(trimmed, 2, Len(trimmed) - 1)
            IN [c EXCEPT !.entries = Append(@, Section(section)),
                         !.current_section = Some(section)]
       ELSE LET colon == split_once(trimmed, ":")
                kv == IF is_some(colon) THEN colon ELSE split_once(trimmed, "=")
            IN IF is_some(kv)
               THEN LET key == trim(unwrap(kv)[1])
                        value == trim(unwrap(kv)[2])
                    IN [c EXCEPT !.entries = Append(@, KeyValue(key, value)),
                                 !.index = index_push(@, <<c.current_section, key>>, value)]
               ELSE [c EXCEPT !.entries = Append(@, KeyValue(trimmed, "")),
                              !.index = index_push(@, <<c.current_section, trimmed>>, "")]

RECURSIVE from_str_loop(_, _, _)
from_str_loop(c, ls, i) ==
    IF i > Len(ls) THEN c ELSE from_str_loop(from_str_line(c, ls[i]), ls, i + 1)

\* Config::from_str
from_str(content) ==
    LET c == from_str_loop([entries |-> <<>>, index |-> EmptyIndex, current_section |-> None],
                           lines(content), 1)
    IN [entries |-> c.entries, index |-> c.index]

(* lxc::section::SectionView, for the view (config, section) *)

get(config, section, key) ==
    IF <<section, key>> \in DOMAIN config.index
    THEN (IF Len(config.index[<<section, key>>]) > 0
          THEN Some(config.index[<<section, key>>][1])
          ELSE None)
    ELSE None

get_all(config, section, key) ==
    IF <<section, key>> \in DOMAIN config.index THEN config.index[<<section, key>>] ELSE <<>>

get_rootfs(config, section) == get(config, section, "rootfs")
\* variant: the key is looked up in every section
get_unprivileged_any_section(config, section) ==
    IF \E k \in DOMAIN config.index : k[2] = "unprivileged"
    THEN Some(config.index[CHOOSE k \in DOMAIN config.index : k[2] = "unprivileged"][1])
    ELSE None

get_unprivileged(config, section) == get(config, section, "unprivileged")
get_lxc_idmaps(config, section) == get_all(config, section, "lxc.idmap")

has_key(config, section, key) == <<section, key>> \in DOMAIN config.index

\* SectionView::keys, as a set: the iteration order of the HashMap is not fixed
keys(config, section) == {k[2] : k \in {x \in DOMAIN config.index : x[1] = section}}

(* lxc::section_mut::SectionViewMut, for the view (config, section) *)

\* the closure of retain in remove_all, applied from the first entry on
RECURSIVE retain(_, _, _, _)
retain(entries, section, key, in_section) ==
    IF Len(entries) = 0 THEN <<>>
    ELSE IF Head(entries).tag = "Section"
    THEN <<Head(entries)>>
         \o retain(Tail(entries), section, key, section = Some(Head(entries).key))
    ELSE IF Head(entries).tag = "KeyValue" /\ in_section /\ Head(entries).key = key
    THEN retain(Tail(entries), section, key, in_section)
    ELSE <<Head(entries)>> \o retain(Tail(entries), section, key, in_section)

remove_all(config, section, key) ==
    [entries |-> retain(config.entries, section, key, section = None),
     index |-> [k \in DOMAIN config.index \ {<<section, key>>} |-> config.index[k]]]

\* the loop of find_append_point: i is the 0-based position, last the
\* last_match_index
RECURSIVE last_match(_, _, _, _, _)
last_match(entries, section, i, in_section, last) ==
    IF i >= Len(entries) THEN last
    ELSE IF entries[i + 1].tag = "Section"
    THEN last_match(entries, section, i + 1, section = Some(entries[i + 1].key), last)
    ELSE IF entries[i + 1].tag = "KeyValue" /\ in_section
    THEN last_match(entries, section, i + 1, in_section, Some(i))
    ELSE last_match(entries, section, i + 1, in_section, last)

\* the 0-based position at which append inserts
find_append_point(config, section) ==
    LET last == last_match(config.entries, section, 0, section = None, None)
    IN IF is_some(last) THEN unwrap(last) + 1 ELSE Len(config.entries)

\* Vec::insert at a 0-based position
vec_insert(entries, insert_index, entry) ==
    SubSeq(entries, 1, insert_index) \o <<entry>>
    \o SubSeq(entries, insert_index + 1, Len(entries))

append(config, section, key, value) ==
    [entries |-> vec_insert(config.entries, find_append_point(config, section),
                            KeyValue(key, value)),
     index |-> index_push(config.index, <<section, key>>, value)]

set(config, section, key, value) == append(remove_all(config, section, key), section, key, value)

(* impl Display for Config *)

\* what the match in fmt writes for one entry
fmt_entry(entry) ==
    IF entry.tag = "Section" THEN "[" \o entry.key \o "]"
    ELSE IF entry.tag = "KeyValue" THEN entry.key \o ": " \o entry.value
    ELSE IF entry.tag = "Comment" THEN entry.key
    ELSE ""

\* the loop of fmt from the entry at 0-based position i on
RECURSIVE fmt(_, _)
fmt(entries, i) ==
    IF i >= Len(entries) THEN ""
    ELSE (IF i # 0 THEN "\n" ELSE "") \o fmt_entry(entries[i + 1]) \o fmt(entries, i + 1)

\* Config::to_string
to_string(c) == fmt(c.entries, 0)

-----------------------------------------------------------------------------
(* The environment of an evaluation pass *)

\* the users `id -u <name>` knows, with their uid
Passwd == "root" :> 0 @@ "alice" :> 1000

\* the users `id -g <name>` knows, with their primary gid
PrimaryGroup == "root" :> 0 @@ "alice" :> 100

\* linux::username_to_id: Err when the id command fails
username_to_id(username) ==
    IF username \in DOMAIN Passwd THEN Some(Passwd[username]) ELSE None

\* linux::groupname_to_id: Err when the id command fails
groupname_to_id(groupname) ==
    IF groupname \in DOMAIN PrimaryGroup THEN Some(PrimaryGroup[groupname]) ELSE None

\* the lines `zfs list -o mountpoint` prints
ZfsList == <<"MOUNTPOINT", "/rpool/data", "/rpool/data/subvol-100-disk-0">>

RootfsPath == "/rpool/data/subvol-100-disk-0"

RECURSIVE zfs_scan(_, _)
zfs_scan(volume, i) ==
    IF i > Len(ZfsList) THEN None
    ELSE IF ends_with(trim_end(ZfsList[i]), volume) THEN Some(trim_end(ZfsList[i]))
    ELSE zfs_scan(volume, i + 1)

\* linux::zfs_volume_to_mountpoint, the zfs command succeeding
zfs_volume_to_mountpoint(volume) == zfs_scan(volume, 1)

\* lxc::parse_rootfs_value
parse_rootfs_value(value) ==
    LET parts == split(value, ":")
    IN IF Len(parts) < 2 THEN None
       ELSE Some(<<parts[1], split(parts[2], ",")[1]>>)

\* lxc::rootfs_value_to_path: Ok(path) or Err
rootfs_value_to_path(value) ==
    LET parsed == parse_rootfs_value(value)
    IN IF ~is_some(parsed) THEN None
       ELSE IF unwrap(parsed)[1] = "local-zfs"
       THEN zfs_volume_to_mountpoint(unwrap(parsed)[2])
       ELSE None

\* std::fs::metadata on the file system fsm: Ok(owner) or Err
metadata_of(fsm, path) == IF path \in DOMAIN fsm THEN Some(fsm[path]) ELSE None

-----------------------------------------------------------------------------
(* app::state::State::evaluate_findings *)

UID == "UID"
GID == "GID"

Finding(kind, message, host_highlights, lxc_highlights) ==
    [kind |-> kind, message |-> message,
     host_mapping_highlights |-> host_highlights,
     lxc_config_mapping_highlights |-> lxc_highlights,
     rootfs_highlights |-> <<>>]

DuplicateUser == "Cannot have multiple entries for the same user"
DuplicateGroup == "Cannot have multiple entries for the same group"
NoDuplicates == "No duplicate ids found in subuid/subgid mappings"
RootfsUid == "Rootfs uid does not match host mapping"
RootfsGid == "Rootfs gid does not match host mapping"
RangeUid == "LXC config's host sub uid range outside of host mapping range"
RangeGid == "LXC config's host sub gid range outside of host mapping range"
MissingUid == "lxc.idmap for uid is not set in config"
MissingGid == "lxc.idmap for gid is not set in config"

\* the two duplicate scans: seen maps a host_user_id to the position that
\* first held it; offset is the number of subuid entries before a subgid one
RECURSIVE scan_duplicates(_, _, _, _, _, _)
scan_duplicates(mappings, offset, message, strict, seen, k) ==
    IF k > Len(mappings) THEN <<>>
    ELSE LET name == mappings[k].host_user_id
             i == (k - 1) + offset
         IN IF name \in DOMAIN seen
            THEN (IF strict
                  THEN <<Finding("Bad", message, <<seen[name], i>>, <<>>)>>
                  ELSE <<>>)
                 \o scan_duplicates(mappings, offset, message, strict, seen, k + 1)
            ELSE scan_duplicates(mappings, offset, message, strict,
                                 seen @@ (name :> i), k + 1)

has_duplicate_finding(fs) ==
    \E n \in 1..Len(fs) : starts_with(fs[n].message, "Cannot have multiple entries for the same")

\* variant: the Good finding is pushed whatever the policy
no_duplicates_finding_any_policy(fs, strict) ==
    IF ~has_duplicate_finding(fs)
    THEN Append(fs, Finding("Good", NoDuplicates, <<>>, <<>>))
    ELSE fs

\* the push of the Good finding after the scans
no_duplicates_finding(fs, strict) ==
    IF strict /\ ~has_duplicate_finding(fs)
    THEN Append(fs, Finding("Good", NoDuplicates, <<>>, <<>>))
    ELSE fs

\* the range condition of one lxc.idmap line against one host entry, with
\* the short-circuit order of ||: "bad", "ok", or "panic" on u32 overflow
range_verdict(parsed_host_sub_id, parsed_host_sub_id_size, mapping) ==
    IF parsed_host_sub_id < mapping.host_sub_id THEN "bad"
    ELSE LET host_end == add_u32(mapping.host_sub_id, mapping.host_sub_id_count)
         IN IF ~is_some(host_end) THEN "panic"
            ELSE IF parsed_host_sub_id > unwrap(host_end) THEN "bad"
            ELSE LET line_end == add_u32(parsed_host_sub_id, parsed_host_sub_id_size)
                 IN IF ~is_some(line_end) THEN "panic"
                    ELSE IF unwrap(line_end) > unwrap(host_end) THEN "bad"
                    ELSE "ok"

push(ps, finding) == [ps EXCEPT !.findings = Append(@, finding)]

panic(ps) == [ps EXCEPT !.panicked = TRUE]

\* to_id through the per-pass memo: a vacant name is looked up, and only a
\* successful lookup is inserted
resolve(ps, kind, name) ==
    LET memo == IF kind = "u" THEN ps.username_to_id_map ELSE ps.groupname_to_id_map
    IN IF name \in DOMAIN memo
       THEN [ps |-> ps, id |-> Some(memo[name])]
       ELSE LET id == IF kind = "u" THEN username_to_id(name) ELSE groupname_to_id(name)
                looked == [ps EXCEPT !.lookups = Append(@, <<kind, name>>)]
            IN IF ~is_some(id) THEN [ps |-> looked, id |-> None]
               ELSE IF kind = "u"
               THEN [ps |-> [looked EXCEPT !.username_to_id_map = @ @@ (name :> unwrap(id))],
                     id |-> id]
               ELSE [ps |-> [looked EXCEPT !.groupname_to_id_map = @ @@ (name :> unwrap(id))],
                     id |-> id]

\* variant: the entry's identity is not compared with the line's id
check_mapping_any_identity(r, verdict, filename, kind, parsed_host_id, subid_pos) ==
    IF ~is_some(r.id) THEN r.ps
    ELSE IF verdict = "panic" THEN panic(r.ps)
    ELSE IF verdict = "bad"
    THEN push(r.ps, Finding("Bad", IF kind = "u" THEN RangeUid ELSE RangeGid,
                            <<subid_pos>>,
                            <<<<filename, IF kind = "u" THEN UID ELSE GID>>>>))
    ELSE r.ps

\* the body of the loop over the host entries: r is the resolver's answer
\* for the entry and verdict its range condition
check_mapping(r, verdict, filename, kind, parsed_host_id, subid_pos) ==
    IF ~is_some(r.id) THEN r.ps
    ELSE IF unwrap(r.id) # parsed_host_id THEN r.ps
    ELSE IF verdict = "panic" THEN panic(r.ps)
    ELSE IF verdict = "bad"
    THEN push(r.ps, Finding("Bad", IF kind = "u" THEN RangeUid ELSE RangeGid,
                            <<subid_pos>>,
                            <<<<filename, IF kind = "u" THEN UID ELSE GID>>>>))
    ELSE r.ps

\* the loop over the host entries of the line's kind
RECURSIVE check_mappings(_, _, _, _, _, _, _, _)
check_mappings(ps, hm, filename, kind, parsed_host_id, parsed_host_sub_id, parsed_host_sub_id_size, k) ==
    LET mappings == IF kind = "u" THEN hm.subuid ELSE hm.subgid
    IN IF ps.panicked \/ k > Len(mappings) THEN ps
       ELSE check_mappings(
                check_mapping(resolve(ps, kind, mappings[k].host_user_id),
                              range_verdict(parsed_host_sub_id, parsed_host_sub_id_size,
                                            mappings[k]),
                              filename, kind, parsed_host_id,
                              IF kind = "u" THEN k - 1 ELSE (k - 1) + Len(hm.subuid)),
                hm, filename, kind, parsed_host_id, parsed_host_sub_id,
                parsed_host_sub_id_size, k + 1)

\* variant: g lines are compared with the owner uid
check_rootfs_uid_for_gid(ps, filename, kind, parsed_host_sub_id, rootfs_metadata) ==
    IF ~is_some(rootfs_metadata) THEN ps
    ELSE LET md == unwrap(rootfs_metadata)
             u == IF kind = "u" /\ md.uid # parsed_host_sub_id
                  THEN push(ps, Finding("Bad", RootfsUid, <<>>, <<<<filename, UID>>>>))
                  ELSE ps
         IN IF kind = "g" /\ md.uid # parsed_host_sub_id
            THEN push(u, Finding("Bad", RootfsGid, <<>>, <<<<filename, GID>>>>))
            ELSE u

\* the rootfs ownership check of one line
check_rootfs(ps, filename, kind, parsed_host_sub_id, rootfs_metadata) ==
    IF ~is_some(rootfs_metadata) THEN ps
    ELSE LET md == unwrap(rootfs_metadata)
             u == IF kind = "u" /\ md.uid # parsed_host_sub_id
                  THEN push(ps, Finding("Bad", RootfsUid, <<>>, <<<<filename, UID>>>>))
                  ELSE ps
         IN IF kind = "g" /\ md.gid # parsed_host_sub_id
            THEN push(u, Finding("Bad", RootfsGid, <<>>, <<<<filename, GID>>>>))
            ELSE u

\* variant: every line counts as a u line
mark_kind_always_user(ps, kind) == [ps EXCEPT !.has_user_idmap = TRUE]

\* has_user_idmap = true / has_group_idmap = true
mark_kind(ps, kind) ==
    IF kind = "u"
    THEN [ps EXCEPT !.has_user_idmap = TRUE]
    ELSE [ps EXCEPT !.has_group_idmap = TRUE]

\* the body of the loop over section.get_lxc_idmaps() once the three numbers
\* are parsed: a field that is not a u32 or a kind other than u and g panics
check_parsed(ps, hm, filename, rootfs_metadata, kind, parsed_host_id, parsed_host_sub_id, parsed_host_sub_id_size) ==
    IF ~is_some(parsed_host_id) \/ ~is_some(parsed_host_sub_id)
       \/ ~is_some(parsed_host_sub_id_size) \/ kind \notin {"u", "g"}
    THEN panic(ps)
    ELSE check_mappings(check_rootfs(mark_kind(ps, kind), filename, kind,
                                     unwrap(parsed_host_sub_id), rootfs_metadata),
                        hm, filename, kind, unwrap(parsed_host_id),
                        unwrap(parsed_host_sub_id), unwrap(parsed_host_sub_id_size), 1)

\* the fields of one lxc.idmap line: a missing field panics
check_fields(ps, hm, filename, rootfs_metadata, fields) ==
    IF Len(fields) < 4 THEN panic(ps)
    ELSE check_parsed(ps, hm, filename, rootfs_metadata, fields[1],
                      parse_u32(fields[2]), parse_u32(fields[3]), parse_u32(fields[4]))

\* the body of the loop over section.get_lxc_idmaps()
check_idmap(ps, hm, filename, rootfs_metadata, idmap) ==
    check_fields(ps, hm, filename, rootfs_metadata, split(trim(idmap), " "))

RECURSIVE check_idmaps(_, _, _, _, _, _)
check_idmaps(ps, hm, filename, rootfs_metadata, idmaps, n) ==
    IF ps.panicked \/ n > Len(idmaps) THEN ps
    ELSE check_idmaps(check_idmap(ps, hm, filename, rootfs_metadata, idmaps[n]),
                      hm, filename, rootfs_metadata, idmaps, n + 1)

\* the metadata of the container's rootfs, None when there is no rootfs key,
\* the value does not resolve to a path, or the path cannot be stat'ed
rootfs_metadata_of(config, fsm) ==
    LET rootfs_value == get_rootfs(config, None)
    IN IF ~is_some(rootfs_value) THEN None
       ELSE LET path == rootfs_value_to_path(unwrap(rootfs_value))
            IN IF ~is_some(path) THEN None ELSE metadata_of(fsm, unwrap(path))

\* the two findings after the loop over the lines of a config
missing_idmaps(done, filename) ==
    IF done.panicked THEN done
    ELSE LET u == IF ~done.has_user_idmap
                  THEN push(done, Finding("Bad", MissingUid, <<>>, <<<<filename, UID>>>>))
                  ELSE done
         IN IF ~done.has_group_idmap
            THEN push(u, Finding("Bad", MissingGid, <<>>, <<<<filename, GID>>>>))
            ELSE u

\* the body of the loop over self.lxc_configs
check_config(ps, hm, fsm, filename, config) ==
    IF get_unprivileged(config, None) # Some("1") THEN ps
    ELSE missing_idmaps(
             check_idmaps([ps EXCEPT !.has_user_idmap = FALSE, !.has_group_idmap = FALSE],
                          hm, filename, rootfs_metadata_of(config, fsm),
                          get_lxc_idmaps(config, None), 1),
             filename)

RECURSIVE check_configs(_, _, _, _, _)
check_configs(ps, hm, fsm, configs, n) ==
    IF ps.panicked \/ n > Len(configs) THEN ps
    ELSE check_configs(check_config(ps, hm, fsm, configs[n].filename, configs[n].config),
                       hm, fsm, configs, n + 1)

\* variant: the list is not cleared
clear_nothing(fs) == fs

\* self.findings.clear()
clear(fs) == <<>>

\* variant: the sort key is kind != Good
sort_by_key_good_first(fs) ==
    SelectSeq(fs, LAMBDA f : f.kind = "Good") \o SelectSeq(fs, LAMBDA f : f.kind # "Good")

\* self.findings.sort_by_key(|f| f.kind != FindingKind::Bad): a stable sort
\* on a boolean key, false first
sort_by_key(fs) ==
    SelectSeq(fs, LAMBDA f : f.kind = "Bad") \o SelectSeq(fs, LAMBDA f : f.kind # "Bad")

\* the locals of a pass before the loop over the configs
new_pass(fs) ==
    [findings |-> fs,
     username_to_id_map |-> EmptyIndex,
     groupname_to_id_map |-> EmptyIndex,
     lookups |-> <<>>,
     has_user_idmap |-> FALSE,
     has_group_idmap |-> FALSE,
     panicked |-> FALSE]

\* what a pass leaves: the pushes in order (emitted), the list after the
\* sort (findings), whether it panicked, and the resolver invocations it made
end_pass(ps) ==
    [emitted |-> ps.findings,
     findings |-> IF ps.panicked THEN ps.findings ELSE sort_by_key(ps.findings),
     panicked |-> ps.panicked,
     lookups |-> ps.lookups]

\* State::evaluate_findings on the findings list old
evaluate_findings(old, hm, configs, strict, fsm) ==
    end_pass(
        check_configs(
            new_pass(no_duplicates_finding(
                clear(old)
                \o scan_duplicates(hm.subuid, 0, DuplicateUser, strict, EmptyIndex, 1)
                \o scan_duplicates(hm.subgid, Len(hm.subuid), DuplicateGroup, strict,
                                   EmptyIndex, 1),
                strict)),
            hm, fsm, configs, 1))

-----------------------------------------------------------------------------
(* Inputs of the evaluator specification *)

IdMapEntry(host_user_id, host_sub_id, host_sub_id_count) ==
    [host_user_id |-> host_user_id, host_sub_id |-> host_sub_id,
     host_sub_id_count |-> host_sub_id_count]

\* lines of /etc/subuid and /etc/subgid: root:1:2, alice:1:2 and ghost:1:2,
\* ghost being a name the id command does not know
HostEntries == {IdMapEntry("root", 1, 2), IdMapEntry("alice", 1, 2), IdMapEntry("ghost", 1, 2)}

\* the host entries next to generated containers
ContainerHostEntries == {IdMapEntry("root", 1, 2), IdMapEntry("ghost", 1, 2)}

RECURSIVE SeqsUpTo(_, _)
SeqsUpTo(S, n) ==
    IF n = 0 THEN {<<>>}
    ELSE LET shorter == SeqsUpTo(S, n - 1)
         IN shorter \cup {Append(q, x) : q \in {r \in shorter : Len(r) = n - 1}, x \in S}

\* the text before the lxc.idmap lines of a generated container config
Preambles ==
    {"",
     "unprivileged: 1\n",
     "unprivileged: 0\n",
     "[pre-setup]\nunprivileged: 1\n",
     "unprivileged: 1\nrootfs: local-zfs:subvol-100-disk-0,size=4G\n",
     "unprivileged: 1\n[pre-setup]\n"}

\* the u lines of a generated config: none, the host range, one longer,
\* starting at the end of the host range with count 0, another id, a missing
\* field, and two lines outside the host range
UserLines ==
    {"",
     "lxc.idmap: u 0 1 2\n",
     "lxc.idmap: u 0 1 3\n",
     "lxc.idmap: u 0 3 0\n",
     "lxc.idmap: u 1000 1 3\n",
     "lxc.idmap: u 0 1\n",
     "lxc.idmap: u 0 1 3\nlxc.idmap: u 0 0 1\n"}

\* the g lines of a generated config: none, the host range, one longer
GroupLines ==
    {"",
     "lxc.idmap = g 0 1 2\n",
     "lxc.idmap = g 0 1 3\n"}

ConfigTexts == {p \o u \o g : p \in Preambles, u \in UserLines, g \in GroupLines}

\* a second container: unprivileged without any lxc.idmap line
OtherTexts == {"unprivileged: 1\n"}

Loaded(filename, text) == [filename |-> filename, config |-> from_str(text)]

Owners == {[uid |-> 1, gid |-> 1], [uid |-> 1, gid |-> 3]}

FsStates == {EmptyIndex} \cup {RootfsPath :> o : o \in Owners}

\* State::default()
StateDefault ==
    /\ findings = <<>>
    /\ pass = "none"
    /\ emitted = <<>>
    /\ clean_passes = 0
    /\ lookups = <<>>

\* App::new
AppNew ==
    /\ events = <<>>
    /\ sent = 0
    /\ app_status = "running"
    /\ app_host_mapping = [subuid |-> <<>>, subgid |-> <<>>]
    /\ app_lxc_configs = <<>>
    /\ app_findings = <<>>
    /\ handled = [kind |-> "none", path |-> "", present |-> FALSE, recomputed |-> FALSE]
    /\ selected_finding = None

\* no config file is held outside the evaluator and the event loop
StoreIdle ==
    /\ file_text = ""
    /\ file_config = None
    /\ rendered = None
    /\ mutations = 0

\* no file is watched and nothing is queued for the Watcher or the Reader
PipelineIdle ==
    /\ disk = EmptyIndex
    /\ native = <<>>
    /\ file_tx = <<>>
    /\ reader_status = "running"
    /\ fs_changes = 0

\* no rootfs is registered with the poll thread
PollIdle ==
    /\ dir_watcher_rx = <<>>
    /\ watch_paths = EmptyIndex
    /\ poll_pc = "recv"
    /\ poll_sent = {}
    /\ requested = <<>>

\* no range check is under way
RangeIdle ==
    /\ range_case = None
    /\ range_out = None

\* few host entries, containers of every generated shape; the rootfs dataset
\* is on disk only when a container names it
InitContainers ==
    /\ host_mapping \in [subuid : SeqsUpTo(ContainerHostEntries, MaxSub),
                         subgid : SeqsUpTo(ContainerHostEntries, MaxSub)]
    /\ lxc_configs \in
         {<<>>}
         \cup {<<Loaded("100.conf", t)>> : t \in ConfigTexts}
         \cup {<<Loaded("100.conf", t), Loaded("101.conf", o)>> :
                 t \in ConfigTexts, o \in OtherTexts}

\* up to MaxHostEntries host entries, no container
InitHosts ==
    /\ \E u \in SeqsUpTo(HostEntries, MaxHostEntries) :
       \E g \in SeqsUpTo(HostEntries, MaxHostEntries - Len(u)) :
          host_mapping = [subuid |-> u, subgid |-> g]
    /\ lxc_configs = <<>>

Init ==
    /\ is_pve \in BOOLEAN
    /\ overflow_checks = TRUE
    /\ InitContainers \/ InitHosts
    /\ fs_metadata \in IF \E n \in 1..Len(lxc_configs) :
                            is_some(get_rootfs(lxc_configs[n].config, None))
                       THEN FsStates
                       ELSE {EmptyIndex}
    /\ StateDefault
    /\ AppNew
    /\ StoreIdle
    /\ PipelineIdle
    /\ PollIdle
    /\ RangeIdle

Min(a, b) == IF a < b THEN a ELSE b

\* a call of State::evaluate_findings(metadata)
EvaluateFindings ==
    /\ pass # "panic"
    /\ \E r \in {evaluate_findings(findings, host_mapping, lxc_configs, is_pve, fs_metadata)} :
          /\ findings' = r.findings
          /\ emitted' = r.emitted
          /\ pass' = IF r.panicked THEN "panic" ELSE "ok"
          /\ clean_passes' = IF r.panicked THEN 0 ELSE Min(clean_passes + 1, MaxPasses)
          /\ lookups' = r.lookups
    /\ UNCHANGED <<is_pve, overflow_checks, host_mapping, lxc_configs, fs_metadata>>
    /\ UNCHANGED app_vars
    /\ UNCHANGED store_vars
    /\ UNCHANGED pipeline_vars
    /\ UNCHANGED poll_vars
    /\ UNCHANGED range_vars

\* the environment: the owner of the rootfs changes on disk
Chown ==
    /\ pass # "panic"
    /\ RootfsPath \in DOMAIN fs_metadata
    /\ \E o \in Owners :
         /\ o # fs_metadata[RootfsPath]
         /\ fs_metadata' = (RootfsPath :> o)
    /\ clean_passes' = 0
    /\ UNCHANGED <<is_pve, overflow_checks, host_mapping, lxc_configs, findings, pass, emitted,
                   lookups>>
    /\ UNCHANGED app_vars
    /\ UNCHANGED store_vars
    /\ UNCHANGED pipeline_vars
    /\ UNCHANGED poll_vars
    /\ UNCHANGED range_vars

Next == EvaluateFindings \/ Chown

Spec == Init /\ [][Next]_vars

-----------------------------------------------------------------------------
(* app::App: the event loop *)

ETC_SUBUID == "/etc/subuid"
ETC_SUBGID == "/etc/subgid"

\* Metadata.lxc_config_dir on a Proxmox VE host
PVE_CONF_DIR == "/etc/pve/lxc"

\* index of the last occurrence of the character c in s, 0 when there is none
RECURSIVE rfind_from(_, _, _)
rfind_from(s, c, i) ==
    IF i = 0 THEN 0
    ELSE IF char_at(s, i) = c THEN i
    ELSE rfind_from(s, c, i - 1)

\* Path::file_name: the last component, None when it is ".."
file_name(path) ==
    LET name == SubSeq(path, rfind_from(path, "/", Len(path)) + 1, Len(path))
    IN IF name = ".." \/ Len(name) = 0 THEN None ELSE Some(name)

\* Path::starts_with: dir is a prefix of path made of whole components
path_starts_with(path, dir) == path = dir \/ starts_with(path, dir \o "/")

\* proxmox::lxc::Config::from_str: the loop of lxc::config without the index
proxmox_from_str(content) == [entries |-> from_str(content).entries]

\* proxmox::lxc::Config::sectionless_idmap: the lxc.idmap values before the
\* first section header
RECURSIVE sectionless_idmap(_)
sectionless_idmap(entries) ==
    IF Len(entries) = 0 \/ Head(entries).tag = "Section" THEN <<>>
    ELSE (IF Head(entries).tag = "KeyValue" /\ Head(entries).key = "lxc.idmap"
          THEN <<Head(entries).value>>
          ELSE <<>>)
         \o sectionless_idmap(Tail(entries))

\* variant: a second entry is added for a key the map already holds
insert_always_appends(configs, filename, config) ==
    Append(configs, [filename |-> filename, config |-> config])

\* IndexMap::insert: an existing key keeps its position and gets the value
insert(configs, filename, config) ==
    IF \E n \in 1..Len(configs) : configs[n].filename = filename
    THEN [n \in 1..Len(configs) |->
            IF configs[n].filename = filename
            THEN [filename |-> filename, config |-> config]
            ELSE configs[n]]
    ELSE Append(configs, [filename |-> filename, config |-> config])

\* one line of parse_subid_map: Ok(entry) or Err
parse_subid_line(trimmed) ==
    LET fields == split(trimmed, ":")
        host_sub_id == IF Len(fields) >= 2 THEN parse_u32(fields[2]) ELSE None
        host_sub_id_count == IF Len(fields) >= 3 THEN parse_u32(fields[3]) ELSE None
    IN IF ~is_some(host_sub_id) \/ ~is_some(host_sub_id_count) THEN None
       ELSE Some(IdMapEntry(fields[1], unwrap(host_sub_id), unwrap(host_sub_id_count)))

RECURSIVE parse_subid_lines(_, _, _)
parse_subid_lines(ls, i, id_map) ==
    IF i > Len(ls) THEN Some(id_map)
    ELSE LET trimmed == trim(ls[i])
         IN IF Len(trimmed) = 0 THEN parse_subid_lines(ls, i + 1, id_map)
            ELSE LET entry == parse_subid_line(trimmed)
                 IN IF ~is_some(entry) THEN None
                    ELSE parse_subid_lines(ls, i + 1, Append(id_map, unwrap(entry)))

\* parse_subid_map: Ok(entries in line order) or Err
parse_subid_map(content) == parse_subid_lines(lines(content), 1, <<>>)

\* variant: a content that does not parse empties the targeted list
load_subid_clears_on_error(hm, content, subid) ==
    LET id_map == parse_subid_map(content)
        installed == IF is_some(id_map) THEN unwrap(id_map) ELSE <<>>
    IN IF subid = "SubUID" THEN Some([hm EXCEPT !.subuid = installed])
       ELSE Some([hm EXCEPT !.subgid = installed])

\* App::load_subid: the new host mapping, or Err
load_subid(hm, content, subid) ==
    LET id_map == parse_subid_map(content)
    IN IF ~is_some(id_map) THEN None
       ELSE IF subid = "SubUID" THEN Some([hm EXCEPT !.subuid = unwrap(id_map)])
       ELSE Some([hm EXCEPT !.subgid = unwrap(id_map)])

\* App::load_container_id_map: the new config map, or Err
load_container_id_map(configs, path, content) ==
    LET filename == file_name(path)
    IN IF ~is_some(filename) THEN None
       ELSE Some(insert(configs, unwrap(filename), proxmox_from_str(content)))

\* App::unload_container_id_map: Err("TODO: Unload container id map ...")
unload_container_id_map(configs, path) == None

AppFinding(kind, message, host_highlights, lxc_highlights) ==
    [kind |-> kind, message |-> message,
     host_mapping_highlights |-> host_highlights,
     lxc_config_mapping_highlights |-> lxc_highlights]

\* the duplicate scans of App::evaluate_findings
RECURSIVE app_scan_duplicates(_, _, _, _, _)
app_scan_duplicates(mappings, offset, message, seen, k) ==
    IF k > Len(mappings) THEN <<>>
    ELSE LET name == mappings[k].host_user_id
             i == (k - 1) + offset
         IN IF name \in DOMAIN seen
            THEN <<AppFinding("Bad", message, <<seen[name], i>>, <<>>)>>
                 \o app_scan_duplicates(mappings, offset, message, seen, k + 1)
            ELSE app_scan_duplicates(mappings, offset, message, seen @@ (name :> i), k + 1)

\* the loop over the host entries in App::evaluate_findings: TRUE when a
\* lookup fails, which panics in expect("fixme")
app_lookup_panics(hm, kind) ==
    LET mappings == IF kind = "u" THEN hm.subuid ELSE hm.subgid
    IN \E k \in 1..Len(mappings) :
         ~is_some(IF kind = "u" THEN username_to_id(mappings[k].host_user_id)
                  ELSE groupname_to_id(mappings[k].host_user_id))

\* the body of the loop over config.sectionless_idmap() in
\* App::evaluate_findings: TRUE when it panics
app_idmap_panics(hm, idmap) ==
    LET fields == split(trim(idmap), " ")
    IN \/ Len(fields) < 2
       \/ ~is_some(parse_u32(fields[2]))
       \/ Len(fields) < 4
       \/ fields[1] \notin {"u", "g"}
       \/ app_lookup_panics(hm, fields[1])

\* App::evaluate_findings: the findings list it leaves and whether it panicked
app_evaluate_findings(old, hm, configs) ==
    LET users == app_scan_duplicates(hm.subuid, 0, DuplicateUser, EmptyIndex, 1)
        groups == app_scan_duplicates(hm.subgid, Len(hm.subuid), DuplicateGroup, EmptyIndex, 1)
    IN [findings |-> clear(old) \o users \o groups,
        panicked |-> \E n \in 1..Len(configs) :
                       LET idmaps == sectionless_idmap(configs[n].config.entries)
                       IN \E i \in 1..Len(idmaps) : app_idmap_panics(hm, idmaps[i])]

-----------------------------------------------------------------------------
(* Events of the event-loop specification *)

Update(path, content) == [kind |-> "Update", path |-> path, content |-> content]
Remove(path) == [kind |-> "Remove", path |-> path, content |-> ""]
Quit == [kind |-> "Quit", path |-> "", content |-> ""]
\* Event::Crossterm(CrosstermEvent::Key(..)) with the key code in path
Key(code) == [kind |-> "Key", path |-> code, content |-> ""]

ConfPaths == {"/etc/pve/lxc/100.conf", "/etc/pve/lxc/101.conf"}

\* what the Reader can deliver: host files (well formed, with a blank line,
\* with a missing count, with a name the id command does not know) and
\* container configs
Updates ==
    {Update(ETC_SUBUID, "root:1:2\n"),
     Update(ETC_SUBUID, "root:1:2\n\nroot:3:4\n"),
     Update(ETC_SUBUID, "root:1\n"),
     Update(ETC_SUBGID, "root:1:2\n"),
     Update("/etc/pve/lxc/100.conf", "unprivileged: 1\nlxc.idmap: u 0 1 2\n"),
     Update("/etc/pve/lxc/100.conf", "unprivileged: 1\n"),
     Update(ETC_SUBUID, "ghost:1:2\n"),
     Update("/etc/pve/lxc/101.conf", "lxc.idmap: u 0 1\n"),
     Update("/etc/pve/lxc/101.conf", "unprivileged: 0\n")}

\* the Reader sends an Update for a file it has read
SendUpdate ==
    /\ app_status = "running"
    /\ sent < MaxEvents
    /\ \E e \in Updates : events' = Append(events, e)
    /\ sent' = sent + 1
    /\ UNCHANGED <<app_status, app_host_mapping, app_lxc_configs, app_findings, handled,
                   selected_finding>>
    /\ UNCHANGED state_vars
    /\ UNCHANGED store_vars
    /\ UNCHANGED pipeline_vars
    /\ UNCHANGED poll_vars
    /\ UNCHANGED range_vars

\* the Watcher sends a Remove for a renamed or removed file
SendRemove ==
    /\ app_status = "running"
    /\ sent < MaxEvents
    /\ \E path \in ConfPaths : events' = Append(events, Remove(path))
    /\ sent' = sent + 1
    /\ UNCHANGED <<app_status, app_host_mapping, app_lxc_configs, app_findings, handled,
                   selected_finding>>
    /\ UNCHANGED state_vars
    /\ UNCHANGED store_vars
    /\ UNCHANGED pipeline_vars
    /\ UNCHANGED poll_vars
    /\ UNCHANGED range_vars

\* the key handler sends Quit
SendQuit ==
    /\ app_status = "running"
    /\ sent < MaxEvents
    /\ events' = Append(events, Quit)
    /\ sent' = sent + 1
    /\ UNCHANGED <<app_status, app_host_mapping, app_lxc_configs, app_findings, handled,
                   selected_finding>>
    /\ UNCHANGED state_vars
    /\ UNCHANGED store_vars
    /\ UNCHANGED pipeline_vars
    /\ UNCHANGED poll_vars
    /\ UNCHANGED range_vars

\* whether the config map holds an entry for the file name of path
contains_key(configs, path) ==
    \E n \in 1..Len(configs) : Some(configs[n].filename) = file_name(path)

\* what the load or unload step of a FileSystemChanged event returns: Ok
\* with the new host mapping and config map, or Err
load_step(event) ==
    IF event.kind = "Remove"
    THEN LET unloaded == unload_container_id_map(app_lxc_configs, event.path)
         IN IF ~is_some(unloaded) THEN None
            ELSE Some([hm |-> app_host_mapping, configs |-> unwrap(unloaded)])
    ELSE IF path_starts_with(event.path, PVE_CONF_DIR)
    THEN LET loaded == load_container_id_map(app_lxc_configs, event.path, event.content)
         IN IF ~is_some(loaded) THEN None
            ELSE Some([hm |-> app_host_mapping, configs |-> unwrap(loaded)])
    ELSE IF event.path \in {ETC_SUBUID, ETC_SUBGID}
    THEN LET loaded == load_subid(app_host_mapping, event.content,
                                  IF event.path = ETC_SUBUID THEN "SubUID" ELSE "SubGID")
         IN IF ~is_some(loaded) THEN None
            ELSE Some([hm |-> unwrap(loaded), configs |-> app_lxc_configs])
    ELSE Some([hm |-> app_host_mapping, configs |-> app_lxc_configs])

\* App::handle_key_event for the keys that move the selection, with no popup
\* or page shown: the new selected_finding
handle_key_event(code, selected, len) ==
    IF len = 0 THEN selected
    ELSE IF code = "Up"
    THEN IF is_some(selected)
         THEN IF unwrap(selected) > 0 THEN Some(unwrap(selected) - 1) ELSE None
         ELSE Some(len - 1)
    ELSE IF code = "Down"
    THEN IF is_some(selected)
         THEN IF unwrap(selected) < len - 1 THEN Some(unwrap(selected) + 1) ELSE None
         ELSE Some(0)
    ELSE IF code = "PageUp" THEN Some(0)
    ELSE IF code = "PageDown" THEN Some(len - 1)
    ELSE selected

\* one iteration of the loop of App::run: handle_events takes the next
\* event; an Err it returns ends run with that error
HandleEvents ==
    /\ app_status = "running"
    /\ Len(events) > 0
    /\ events' = Tail(events)
    /\ LET event == Head(events)
           step == load_step(event)
       IN IF event.kind = "Key"
          THEN /\ selected_finding' = handle_key_event(event.path, selected_finding,
                                                       Len(app_findings))
               /\ handled' = [kind |-> "Key", path |-> event.path, present |-> FALSE,
                               recomputed |-> FALSE]
               /\ UNCHANGED <<app_status, app_host_mapping, app_lxc_configs, app_findings>>
          ELSE IF event.kind = "Quit"
          THEN /\ app_status' = "quit"
               /\ handled' = [kind |-> "Quit", path |-> "", present |-> FALSE,
                               recomputed |-> FALSE]
               /\ UNCHANGED <<app_host_mapping, app_lxc_configs, app_findings,
                              selected_finding>>
          ELSE IF ~is_some(step)
          THEN /\ app_status' = "error"
               /\ handled' = [kind |-> event.kind, path |-> event.path,
                               present |-> contains_key(app_lxc_configs, event.path),
                               recomputed |-> FALSE]
               /\ UNCHANGED <<app_host_mapping, app_lxc_configs, app_findings,
                              selected_finding>>
          ELSE LET r == app_evaluate_findings(app_findings, unwrap(step).hm,
                                              unwrap(step).configs)
               IN /\ app_host_mapping' = unwrap(step).hm
                  /\ app_lxc_configs' = unwrap(step).configs
                  /\ app_findings' = r.findings
                  /\ app_status' = IF r.panicked THEN "panic" ELSE "running"
                  /\ handled' = [kind |-> event.kind, path |-> event.path,
                                  present |-> contains_key(app_lxc_configs, event.path),
                                  recomputed |-> TRUE]
                  /\ UNCHANGED selected_finding
    /\ UNCHANGED sent
    /\ UNCHANGED state_vars
    /\ UNCHANGED store_vars
    /\ UNCHANGED pipeline_vars
    /\ UNCHANGED poll_vars
    /\ UNCHANGED range_vars

AppInit ==
    /\ is_pve = TRUE
    /\ overflow_checks = TRUE
    /\ host_mapping = [subuid |-> <<>>, subgid |-> <<>>]
    /\ lxc_configs = <<>>
    /\ fs_metadata = EmptyIndex
    /\ StateDefault
    /\ AppNew
    /\ StoreIdle
    /\ PipelineIdle
    /\ PollIdle
    /\ RangeIdle

AppNext == SendUpdate \/ SendRemove \/ SendQuit \/ HandleEvents

AppSpec == AppInit /\ [][AppNext]_vars

-----------------------------------------------------------------------------
(* The config store: a config file is parsed, changed through mutable
   section views, and written back *)

\* config texts: normalised lines with and without a final newline, "="
\* and ":" delimiters, surrounding blanks, CRLF, comments and blank lines,
\* values that contain delimiters, lines without a delimiter, keys that lie
\* only in a named section, and named sections without keys
StoreTexts ==
    {"",
     "arch: amd64",
     "arch: amd64\nunprivileged: 1",
     "unprivileged: 1\n",
     "lxc.idmap = g 0 1 2",
     "unprivileged: 1\nlxc.idmap: u 0 1 2\nlxc.idmap: g 0 1 2\n\n[pre-setup]\nunprivileged: 0\nlxc.idmap: u 0 1 3",
     "[pre-setup]\nunprivileged: 1",
     "unprivileged: 1\n[pre-setup]\narch: amd64",
     "nodelimiter",
     "# comment\n\narch: amd64",
     "  arch:amd64  ",
     "arch: amd64\r\ncores: 1",
     "[a]\n[pre-setup]\narch: amd64",
     "rootfs: local-zfs:subvol-100-disk-0,size=4G",
     "[pre-setup]\nnodelimiter",
     "; note\n[pre-setup]"}

\* the sections, keys and values of the set and append calls
StoreSections == {None, Some("pre-setup")}
StoreKeys == {"unprivileged", "arch"}
StoreValues == {"0"}

\* Config::from_str(file_text)
Parse ==
    /\ ~is_some(file_config)
    /\ file_config' = Some(from_str(file_text))
    /\ UNCHANGED <<file_text, rendered, mutations>>
    /\ UNCHANGED state_vars
    /\ UNCHANGED app_vars
    /\ UNCHANGED pipeline_vars
    /\ UNCHANGED poll_vars
    /\ UNCHANGED range_vars

\* Config::to_string()
Display ==
    /\ is_some(file_config)
    /\ ~is_some(rendered)
    /\ rendered' = Some(to_string(unwrap(file_config)))
    /\ UNCHANGED <<file_text, file_config, mutations>>
    /\ UNCHANGED state_vars
    /\ UNCHANGED app_vars
    /\ UNCHANGED pipeline_vars
    /\ UNCHANGED poll_vars
    /\ UNCHANGED range_vars

\* Config::section_mut(section).set(key, value)
Set ==
    /\ is_some(file_config)
    /\ mutations < MaxMutations
    /\ \E section \in StoreSections, key \in StoreKeys, value \in StoreValues :
         file_config' = Some(set(unwrap(file_config), section, key, value))
    /\ rendered' = None
    /\ mutations' = mutations + 1
    /\ UNCHANGED file_text
    /\ UNCHANGED state_vars
    /\ UNCHANGED app_vars
    /\ UNCHANGED pipeline_vars
    /\ UNCHANGED poll_vars
    /\ UNCHANGED range_vars

\* Config::section_mut(section).append(key, value)
AppendValue ==
    /\ is_some(file_config)
    /\ mutations < MaxMutations
    /\ \E section \in StoreSections, key \in StoreKeys, value \in StoreValues :
         file_config' = Some(append(unwrap(file_config), section, key, value))
    /\ rendered' = None
    /\ mutations' = mutations + 1
    /\ UNCHANGED file_text
    /\ UNCHANGED state_vars
    /\ UNCHANGED app_vars
    /\ UNCHANGED pipeline_vars
    /\ UNCHANGED poll_vars
    /\ UNCHANGED range_vars

ConfigInit ==
    /\ file_text \in StoreTexts
    /\ file_config = None
    /\ rendered = None
    /\ mutations = 0
    /\ is_pve = TRUE
    /\ overflow_checks = TRUE
    /\ host_mapping = [subuid |-> <<>>, subgid |-> <<>>]
    /\ lxc_configs = <<>>
    /\ fs_metadata = EmptyIndex
    /\ StateDefault
    /\ AppNew
    /\ PipelineIdle
    /\ PollIdle
    /\ RangeIdle

ConfigNext == Parse \/ Display \/ Set \/ AppendValue

ConfigSpec == ConfigInit /\ [][ConfigNext]_vars

-----------------------------------------------------------------------------
(* Properties of State::evaluate_findings *)

\* findings is what a completed pass over the current inputs left behind
InSync == pass = "ok" /\ clean_passes >= 1

\* the entries before the first section header
RECURSIVE TopLevel(_)
TopLevel(entries) ==
    IF Len(entries) = 0 \/ Head(entries).tag = "Section" THEN <<>>
    ELSE <<Head(entries)>> \o TopLevel(Tail(entries))

\* the values of the top-level lines with this key, in file order
TopLevelValues(config, key) ==
    LET kvs == SelectSeq(TopLevel(config.entries),
                         LAMBDA e : e.tag = "KeyValue" /\ e.key = key)
    IN [i \in 1..Len(kvs) |-> kvs[i].value]

\* the first top-level value of unprivileged is exactly "1"
Unprivileged(config) ==
    LET vs == TopLevelValues(config, "unprivileged")
    IN Len(vs) > 0 /\ vs[1] = "1"

\* the top-level lxc.idmap lines of a kind, as their space separated fields
KindLines(config, kind) ==
    LET all == TopLevelValues(config, "lxc.idmap")
        fields == [i \in 1..Len(all) |-> split(trim(all[i]), " ")]
    IN SelectSeq(fields, LAMBDA f : f[1] = kind)

Count(fs, f) == Cardinality({i \in 1..Len(fs) : fs[i] = f})

SubIDOf(kind) == IF kind = "u" THEN UID ELSE GID

\* C1: for an unprivileged container, a line '<k> <id> <start> <count>' and
\* a host entry of kind k whose resolved identity is <id>, a Bad range
\* finding is emitted for the pair if and only if start lies outside
\* [host_sub_id, host_sub_id + host_sub_id_count) or start + count exceeds
\* host_sub_id + host_sub_id_count
C1_RangeFindingIffOutside ==
    InSync =>
      \A n \in 1..Len(lxc_configs) : \A kind \in {"u", "g"} :
        LET c == lxc_configs[n]
            mappings == IF kind = "u" THEN host_mapping.subuid ELSE host_mapping.subgid
            offset == IF kind = "u" THEN 0 ELSE Len(host_mapping.subuid)
            ls == KindLines(c.config, kind)
        IN Unprivileged(c.config) =>
             \A k \in 1..Len(mappings) :
               LET m == mappings[k]
                   id == IF kind = "u" THEN username_to_id(m.host_user_id)
                         ELSE groupname_to_id(m.host_user_id)
                   outside(f) ==
                       LET start == unwrap(parse_u32(f[3]))
                           count == unwrap(parse_u32(f[4]))
                       IN \/ start < m.host_sub_id
                          \/ start >= m.host_sub_id + m.host_sub_id_count
                          \/ start + count > m.host_sub_id + m.host_sub_id_count
               IN is_some(id) =>
                    Count(findings,
                          Finding("Bad", IF kind = "u" THEN RangeUid ELSE RangeGid,
                                  <<(k - 1) + offset>>, <<<<c.filename, SubIDOf(kind)>>>>))
                    = Cardinality({j \in 1..Len(ls) :
                                     parse_u32(ls[j][2]) = id /\ outside(ls[j])})

\* C2: under the strict policy every host_user_id that appears more than
\* once in subuid (subgid) gets exactly one Bad "Cannot have multiple entries
\* for the same user" ("... group") finding, whose host-mapping highlights
\* reference all positions of that id and whose lxc-config highlights are empty
C2_OneFindingPerDuplicatedId ==
    (InSync /\ is_pve) =>
      \A kind \in {"u", "g"} :
        LET mappings == IF kind = "u" THEN host_mapping.subuid ELSE host_mapping.subgid
            offset == IF kind = "u" THEN 0 ELSE Len(host_mapping.subuid)
            message == IF kind = "u" THEN DuplicateUser ELSE DuplicateGroup
            positions(name) ==
                {(k - 1) + offset : k \in {k \in 1..Len(mappings) :
                                             mappings[k].host_user_id = name}}
            about(name) ==
                {i \in 1..Len(findings) :
                   /\ findings[i].kind = "Bad"
                   /\ findings[i].message = message
                   /\ \E h \in 1..Len(findings[i].host_mapping_highlights) :
                        findings[i].host_mapping_highlights[h] \in positions(name)}
        IN \A k \in 1..Len(mappings) :
             LET name == mappings[k].host_user_id
             IN Cardinality(positions(name)) > 1 =>
                  /\ Cardinality(about(name)) = 1
                  /\ \A i \in about(name) :
                       /\ {findings[i].host_mapping_highlights[h] :
                             h \in 1..Len(findings[i].host_mapping_highlights)}
                          = positions(name)
                       /\ findings[i].lxc_config_mapping_highlights = <<>>

\* C3: for every unprivileged container config, Bad "lxc.idmap for uid is
\* not set in config" is emitted (once, highlighting the filename with UID)
\* if and only if the top-level section has no lxc.idmap line of kind u, and
\* the gid finding if and only if it has none of kind g
C3_MissingIdmapIffAbsent ==
    InSync =>
      \A n \in 1..Len(lxc_configs) :
        LET c == lxc_configs[n]
        IN Unprivileged(c.config) =>
             /\ Count(findings, Finding("Bad", MissingUid, <<>>, <<<<c.filename, UID>>>>))
                = IF Len(KindLines(c.config, "u")) = 0 THEN 1 ELSE 0
             /\ Count(findings, Finding("Bad", MissingGid, <<>>, <<<<c.filename, GID>>>>))
                = IF Len(KindLines(c.config, "g")) = 0 THEN 1 ELSE 0

\* C3 witness: a pass over an unprivileged config without any lxc.idmap line
\* has emitted both findings
C3_Witness ==
    /\ InSync
    /\ \E n \in 1..Len(lxc_configs) :
         /\ Unprivileged(lxc_configs[n].config)
         /\ Len(KindLines(lxc_configs[n].config, "u")) = 0
         /\ Len(KindLines(lxc_configs[n].config, "g")) = 0
    /\ \E i, j \in 1..Len(findings) :
         findings[i].message = MissingUid /\ findings[j].message = MissingGid

\* C4: for an unprivileged container with rootfs metadata, Bad "Rootfs uid
\* does not match host mapping" is emitted for exactly the u lines whose
\* host_sub_id differs from the owner uid, and the gid finding for exactly
\* the g lines whose host_sub_id differs from the owner gid; without rootfs
\* metadata no rootfs finding is emitted
C4_RootfsFindingIffMismatch ==
    InSync =>
      \A n \in 1..Len(lxc_configs) :
        LET c == lxc_configs[n]
            md == rootfs_metadata_of(c.config, fs_metadata)
            differing(kind, owner) ==
                LET ls == KindLines(c.config, kind)
                IN Cardinality({j \in 1..Len(ls) : unwrap(parse_u32(ls[j][3])) # owner})
            uids == Count(findings, Finding("Bad", RootfsUid, <<>>, <<<<c.filename, UID>>>>))
            gids == Count(findings, Finding("Bad", RootfsGid, <<>>, <<<<c.filename, GID>>>>))
        IN Unprivileged(c.config) =>
             IF is_some(md)
             THEN /\ uids = differing("u", unwrap(md).uid)
                  /\ gids = differing("g", unwrap(md).gid)
             ELSE uids = 0 /\ gids = 0

\* C4 witness: the rootfs is owned by uid 1 and gid 3, and a pass over a
\* config with a g line for host sub id 1 has emitted the gid finding
C4_Witness ==
    /\ InSync
    /\ RootfsPath \in DOMAIN fs_metadata
    /\ \E i \in 1..Len(findings) : findings[i].message = RootfsGid
    /\ \A i \in 1..Len(findings) : findings[i].message # RootfsUid

\* C5: a container config whose top-level unprivileged value is not exactly
\* "1" contributes nothing to a pass: no finding names it, and the pass ends
\* as the pass over the other configs alone ends
C5_PrivilegedContributesNothing ==
    (InSync \/ pass = "panic") =>
      LET others == SelectSeq(lxc_configs, LAMBDA c : Unprivileged(c.config))
          alone == evaluate_findings(<<>>, host_mapping, others, is_pve, fs_metadata)
      IN /\ \A n \in 1..Len(lxc_configs) :
              ~Unprivileged(lxc_configs[n].config) =>
                \A i \in 1..Len(findings) :
                  \A h \in 1..Len(findings[i].lxc_config_mapping_highlights) :
                    findings[i].lxc_config_mapping_highlights[h][1] # lxc_configs[n].filename
         /\ findings = alone.findings
         /\ (pass = "panic") = alone.panicked

\* C5 witness: a pass has completed over a config that sets unprivileged: 1
\* only inside a named section and has an lxc.idmap line with a missing field
C5_Witness ==
    /\ InSync
    /\ \E n \in 1..Len(lxc_configs) :
         LET c == lxc_configs[n].config
         IN /\ ~Unprivileged(c)
            /\ \E e \in 1..Len(c.entries) :
                 c.entries[e] = KeyValue("unprivileged", "1")
            /\ \E e \in 1..Len(c.entries) :
                 c.entries[e] = KeyValue("lxc.idmap", "u 0 1")
    /\ Len(findings) > 1

Repeats(mappings) ==
    \E i, j \in 1..Len(mappings) :
      i # j /\ mappings[i].host_user_id = mappings[j].host_user_id

\* C6: when neither subuid nor subgid repeats a host_user_id, a pass emits
\* no duplicate-entry Bad finding and, under the strict policy, exactly one
\* Good "No duplicate ids found in subuid/subgid mappings", under the
\* non-strict policy none; the Good finding never comes with a
\* duplicate-entry Bad finding
C6_NoDuplicatesBaseline ==
    InSync =>
      LET dupBad == {i \in 1..Len(findings) :
                       findings[i].message \in {DuplicateUser, DuplicateGroup}}
          good == {i \in 1..Len(findings) : findings[i].message = NoDuplicates}
      IN /\ (~Repeats(host_mapping.subuid) /\ ~Repeats(host_mapping.subgid)) =>
              /\ dupBad = {}
              /\ Cardinality(good) = IF is_pve THEN 1 ELSE 0
              /\ \A i \in good : findings[i] = Finding("Good", NoDuplicates, <<>>, <<>>)
         /\ ~(good # {} /\ dupBad # {})

\* C6 witness: a strict pass over distinct, non-empty subuid and subgid lists
\* has emitted the Good finding
C6_Witness ==
    /\ InSync
    /\ is_pve
    /\ Len(host_mapping.subuid) > 1
    /\ Len(host_mapping.subgid) > 0
    /\ ~Repeats(host_mapping.subuid)
    /\ \E i \in 1..Len(findings) : findings[i].message = NoDuplicates

\* C7: after a pass no Good finding comes before a Bad finding, and the Bad
\* findings are in the order in which they were emitted
C7_BadBeforeGoodStable ==
    InSync =>
      /\ \A i, j \in 1..Len(findings) :
           i < j => ~(findings[i].kind = "Good" /\ findings[j].kind = "Bad")
      /\ SelectSeq(findings, LAMBDA f : f.kind = "Bad")
         = SelectSeq(emitted, LAMBDA f : f.kind = "Bad")
      /\ Len(findings) = Len(emitted)

\* C7 witness: the pass pushed the Good finding first and two different Bad
\* findings after it
C7_Witness ==
    /\ InSync
    /\ Len(emitted) >= 3
    /\ emitted[1].kind = "Good"
    /\ emitted[2].kind = "Bad"
    /\ emitted[3].kind = "Bad"
    /\ emitted[2] # emitted[3]

\* C8: a pass that follows a completed pass with no change of the inputs in
\* between leaves the same findings list, order included
C8_SecondPassSameFindings ==
    [][(InSync /\ EvaluateFindings) => (findings' = findings /\ pass' = "ok")]_vars

\* C8 witness: two passes in a row over unchanged inputs, with findings
C8_Witness ==
    /\ pass = "ok"
    /\ clean_passes >= 2
    /\ Len(findings) >= 2

-----------------------------------------------------------------------------
(* Properties of the event loop *)

\* C9: every FileSystemChanged event the event loop handles (Update or
\* Remove) is followed by a findings recomputation before the next event is
\* taken, whether or not its load or unload step succeeded
C9_EveryChangeRecomputes ==
    handled.kind \in {"Update", "Remove"} => handled.recomputed

\* C10: handling a Remove for a container config whose filename is in the
\* config map removes exactly that entry, leaves every other config and the
\* host mapping unchanged, and completes without an error
C10_RemoveUnloadsConfig ==
    [][(/\ HandleEvents
        /\ Head(events).kind = "Remove"
        /\ \E n \in 1..Len(app_lxc_configs) :
             Some(app_lxc_configs[n].filename) = file_name(Head(events).path))
       => (/\ app_lxc_configs'
              = SelectSeq(app_lxc_configs,
                          LAMBDA c : Some(c.filename) # file_name(Head(events).path))
           /\ app_host_mapping' = app_host_mapping
           /\ app_status' = "running")]_vars

\* the event handle_events is about to take concerns a container config
TakesConfig(kind) ==
    /\ HandleEvents
    /\ Head(events).kind = kind
    /\ path_starts_with(Head(events).path, PVE_CONF_DIR)

\* the filenames of a config map, in map order
Filenames(configs) == [n \in 1..Len(configs) |-> configs[n].filename]

\* no filename occurs twice in the config map
OneEntryPerFilename(configs) ==
    \A m, n \in 1..Len(configs) : configs[m].filename = configs[n].filename => m = n

\* C11: a Remove for a filename that is not in the config map and an Update
\* for a filename that is already in it are both non-fatal: the event loop
\* keeps running and the config map has at most one entry per filename
C11_BothOrdersTolerated ==
    [][(\/ TakesConfig("Remove") /\ ~contains_key(app_lxc_configs, Head(events).path)
        \/ TakesConfig("Update") /\ contains_key(app_lxc_configs, Head(events).path))
       => (/\ app_status' = "running"
           /\ OneEntryPerFilename(app_lxc_configs'))]_vars

\* the non-blank lines of a host file, trimmed
NonBlankLines(content) ==
    LET ls == lines(content)
    IN SelectSeq([i \in 1..Len(ls) |-> trim(ls[i])], LAMBDA l : Len(l) > 0)

\* a host-file line has a numeric start and a numeric count
WellFormedLine(l) ==
    LET fields == split(l, ":")
    IN /\ Len(fields) >= 3
       /\ is_some(parse_u32(fields[2]))
       /\ is_some(parse_u32(fields[3]))

\* the entry a well-formed host-file line stands for
EntryOfLine(l) ==
    LET fields == split(l, ":")
    IN IdMapEntry(fields[1], unwrap(parse_u32(fields[2])), unwrap(parse_u32(fields[3])))

\* the host mapping after an Update of a host file with this content
AfterHostUpdate(hm, path, content) ==
    LET ls == NonBlankLines(content)
        entries == [i \in 1..Len(ls) |-> EntryOfLine(ls[i])]
    IN IF \E i \in 1..Len(ls) : ~WellFormedLine(ls[i]) THEN hm
       ELSE IF path = ETC_SUBUID THEN [hm EXCEPT !.subuid = entries]
       ELSE [hm EXCEPT !.subgid = entries]

\* C12: an Update of /etc/subuid or /etc/subgid whose content has a missing
\* or non-numeric start or count on a non-blank line leaves both host lists
\* as they were; otherwise the targeted list becomes the entries of the
\* non-blank lines in line order, and the other list and the configs are
\* unchanged
C12_HostUpdateAllOrNothing ==
    [][(/\ HandleEvents
        /\ Head(events).kind = "Update"
        /\ Head(events).path \in {ETC_SUBUID, ETC_SUBGID})
       => (/\ app_host_mapping'
              = AfterHostUpdate(app_host_mapping, Head(events).path, Head(events).content)
           /\ app_lxc_configs' = app_lxc_configs)]_vars

\* C12 witness: an Update of /etc/subuid was aborted while the list held
\* entries of an earlier Update, and the list still holds them
C12_Witness ==
    /\ handled.kind = "Update"
    /\ handled.path = ETC_SUBUID
    /\ ~handled.recomputed
    /\ Len(app_host_mapping.subuid) > 0

\* C13: no parse, load, unload or identity-resolution failure stops the
\* event loop: only a Quit event ends it
C13_OnlyQuitEndsLoop ==
    app_status # "running" => (app_status = "quit" /\ handled.kind = "Quit")

\* C14: after a container-config Update for filename f with content c the
\* config map holds exactly one entry for f, its config is parse(c), and the
\* entries of the other filenames are unchanged
C14_UpdateUpserts ==
    [][TakesConfig("Update")
       => LET f == unwrap(file_name(Head(events).path))
              others(configs) == SelectSeq(configs, LAMBDA c : c.filename # f)
          IN /\ Cardinality({n \in 1..Len(app_lxc_configs') :
                               app_lxc_configs'[n].filename = f}) = 1
             /\ \A n \in 1..Len(app_lxc_configs') :
                  app_lxc_configs'[n].filename = f
                  => app_lxc_configs'[n].config = proxmox_from_str(Head(events).content)
             /\ others(app_lxc_configs') = others(app_lxc_configs)]_vars

\* C14 witness: an Update for a filename the map already held was handled
\* while the map also holds another filename
C14_Witness ==
    /\ handled.kind = "Update"
    /\ path_starts_with(handled.path, PVE_CONF_DIR)
    /\ handled.present
    /\ handled.recomputed
    /\ Len(app_lxc_configs) = 2

\* the characters of the generated filenames in ASCII order
AsciiOrder == ".01cfno"

\* a <= b in the byte order of str
RECURSIVE str_le(_, _)
str_le(a, b) ==
    IF Len(a) = 0 THEN TRUE
    ELSE IF Len(b) = 0 THEN FALSE
    ELSE IF char_at(a, 1) = char_at(b, 1)
    THEN str_le(SubSeq(a, 2, Len(a)), SubSeq(b, 2, Len(b)))
    ELSE find(AsciiOrder, char_at(a, 1)) < find(AsciiOrder, char_at(b, 1))

\* C15: after a container-config Update has been handled the filenames of
\* the config map are in sorted order
C15_KeysSortedAfterUpdate ==
    (handled.kind = "Update" /\ path_starts_with(handled.path, PVE_CONF_DIR))
    => \A n \in 1..(Len(app_lxc_configs) - 1) :
         str_le(app_lxc_configs[n].filename, app_lxc_configs[n + 1].filename)

\* an lxc.idmap value with fewer than four space-separated fields, a kind
\* other than u and g, or an id, start or count that is not a number
MalformedIdmap(value) ==
    LET fields == split(trim(value), " ")
    IN \/ Len(fields) < 4
       \/ fields[1] \notin {"u", "g"}
       \/ \E i \in 2..4 : ~is_some(parse_u32(fields[i]))

\* C16: a malformed lxc.idmap value in an unprivileged config is skipped:
\* the evaluation pass completes, and the findings of the other containers
\* are still produced
C16_MalformedIdmapIsSkipped ==
    (/\ pass # "none"
     /\ \E n \in 1..Len(lxc_configs) :
          /\ Unprivileged(lxc_configs[n].config)
          /\ LET values == TopLevelValues(lxc_configs[n].config, "lxc.idmap")
             IN \E i \in 1..Len(values) : MalformedIdmap(values[i]))
    => /\ pass = "ok"
       /\ \A m \in 1..Len(lxc_configs) :
            (/\ Unprivileged(lxc_configs[m].config)
             /\ Len(TopLevelValues(lxc_configs[m].config, "lxc.idmap")) = 0)
            => \E k \in 1..Len(findings) :
                 /\ findings[k].message = MissingUid
                 /\ findings[k].lxc_config_mapping_highlights
                    = <<<<lxc_configs[m].filename, UID>>>>

-----------------------------------------------------------------------------
(* Properties of the config store *)

\* the KeyValue entries that lie under the header of section (before the
\* first header for section none); current is the section of the walk
RECURSIVE Under(_, _, _)
Under(entries, section, current) ==
    IF Len(entries) = 0 THEN <<>>
    ELSE IF Head(entries).tag = "Section"
    THEN Under(Tail(entries), section, Some(Head(entries).key))
    ELSE (IF Head(entries).tag = "KeyValue" /\ current = section
          THEN <<Head(entries)>>
          ELSE <<>>)
         \o Under(Tail(entries), section, current)

\* the values of the key in the entries under the section, in order
ValuesUnder(c, section, key) ==
    LET kvs == SelectSeq(Under(c.entries, section, None), LAMBDA e : e.key = key)
    IN [i \in 1..Len(kvs) |-> kvs[i].value]

SectionsOf(c) ==
    {None}
    \cup {Some(c.entries[i].key) : i \in {j \in 1..Len(c.entries) : c.entries[j].tag = "Section"}}
    \cup {k[1] : k \in DOMAIN c.index}

KeysOf(c) ==
    {c.entries[i].key : i \in {j \in 1..Len(c.entries) : c.entries[j].tag = "KeyValue"}}
    \cup {k[2] : k \in DOMAIN c.index}

\* C17: after the parse and after any sequence of set and append calls the
\* index and the entries agree: for every section and key the value list of
\* the index equals, in order and multiplicity, the values of the KeyValue
\* entries with that key that lie under that section's header
C17_IndexAgreesWithEntries ==
    is_some(file_config)
    => \A section \in SectionsOf(unwrap(file_config)), key \in KeysOf(unwrap(file_config)) :
         get_all(unwrap(file_config), section, key)
         = ValuesUnder(unwrap(file_config), section, key)

IsComment(trimmed) == starts_with(trimmed, "#") \/ starts_with(trimmed, ";")

IsHeader(trimmed) == starts_with(trimmed, "[") /\ ends_with(trimmed, "]")

\* a line that is neither blank, nor a comment, nor a section header
IsKeyLine(trimmed) == Len(trimmed) > 0 /\ ~IsComment(trimmed) /\ ~IsHeader(trimmed)

HasDelimiter(trimmed) == find(trimmed, ":") > 0 \/ find(trimmed, "=") > 0

\* C18: for a config text whose key lines are all delimited by ":" or "=",
\* serializing the parsed Config without a mutation in between reproduces
\* the text exactly
C18_DisplayOfParseIsText ==
    (/\ is_some(rendered)
     /\ mutations = 0
     /\ \A i \in 1..Len(lines(file_text)) :
          IsKeyLine(trim(lines(file_text)[i])) => HasDelimiter(trim(lines(file_text)[i])))
    => unwrap(rendered) = file_text

\* the section named by the last header among the first i lines
RECURSIVE SectionAt(_, _)
SectionAt(ls, i) ==
    IF i = 0 THEN None
    ELSE IF ~IsComment(trim(ls[i])) /\ IsHeader(trim(ls[i]))
    THEN Some(SubSeq(trim(ls[i]), 2, Len(trim(ls[i])) - 1))
    ELSE SectionAt(ls, i - 1)

\* C19: every input line yields exactly one entry, and a key line with
\* neither ":" nor "=" is kept as a KeyValue entry with the whole trimmed
\* line as key and an empty value, indexed under the current section, and
\* display writes the line back as it was
C19_UndelimitedLineKeptVerbatim ==
    (is_some(file_config) /\ mutations = 0)
    => /\ Len(unwrap(file_config).entries) = Len(lines(file_text))
       /\ \A i \in 1..Len(lines(file_text)) :
            (IsKeyLine(trim(lines(file_text)[i])) /\ ~HasDelimiter(trim(lines(file_text)[i])))
            => /\ unwrap(file_config).entries[i] = KeyValue(trim(lines(file_text)[i]), "")
               /\ get(unwrap(file_config), SectionAt(lines(file_text), i - 1),
                      trim(lines(file_text)[i])) = Some("")
               /\ is_some(rendered)
                  => lines(unwrap(rendered))[i] = trim(lines(file_text)[i])

\* the values of the key lines with this key whose most recent preceding
\* header names the section, in file order
LineValues(c, ls, section, key) ==
    LET at == SelectSeq([i \in 1..Len(c.entries) |-> i],
                        LAMBDA i : /\ c.entries[i].tag = "KeyValue"
                                   /\ c.entries[i].key = key
                                   /\ SectionAt(ls, i - 1) = section)
    IN [n \in 1..Len(at) |-> c.entries[at[n]].value]

\* what the read-only view of a section answers for a key
ViewAnswers(c, section, key, values) ==
    /\ get_all(c, section, key) = values
    /\ get(c, section, key) = (IF Len(values) > 0 THEN Some(values[1]) ELSE None)
    /\ has_key(c, section, key) <=> Len(values) > 0
    /\ key \in keys(c, section) <=> Len(values) > 0

\* C20: each key line is indexed under the most recent preceding header, or
\* under section none when there is none: for every section and key, get_all
\* returns the values of that section's lines in file order, get the first
\* of them, and has_key and keys know the key only if the section has it
C20_ViewsAreSectionScoped ==
    (is_some(file_config) /\ mutations = 0)
    => \A section \in SectionsOf(unwrap(file_config)) \cup StoreSections,
          key \in KeysOf(unwrap(file_config)) \cup StoreKeys :
         ViewAnswers(unwrap(file_config), section, key,
                     LineValues(unwrap(file_config), lines(file_text), section, key))

\* C20 witness: a parsed config whose key unprivileged lies only in the
\* section pre-setup: the view of section none does not have it
C20_Witness ==
    /\ is_some(file_config)
    /\ mutations = 0
    /\ get(unwrap(file_config), None, "unprivileged") = None
    /\ ~has_key(unwrap(file_config), None, "unprivileged")
    /\ get(unwrap(file_config), Some("pre-setup"), "unprivileged") = Some("1")

-----------------------------------------------------------------------------
(* Properties of the resolver use of State::evaluate_findings *)

\* C23: within one evaluation pass the identity resolver is invoked at most
\* once per distinct (kind, host_user_id) pair, however many lxc.idmap lines
\* and containers reference that kind, including for names whose resolution
\* fails
C23_ResolverOncePerName ==
    pass = "ok" =>
      \A i \in 1..Len(lookups) : \A j \in 1..Len(lookups) :
        i # j => lookups[i] # lookups[j]

\* the range findings of a pass about one host entry, one config and one kind
RangeFindings(fs, pos, filename, kind) ==
    Count(fs, Finding("Bad", IF kind = "u" THEN RangeUid ELSE RangeGid,
                      <<pos>>, <<<<filename, SubIDOf(kind)>>>>))

\* C24: only host entries whose resolved numeric identity equals the
\* lxc.idmap line's id field are range-checked: an entry with a different or
\* unresolvable identity produces no range finding for the line, and a line
\* that no host entry of its kind matches produces no range finding at all
C24_OnlyMatchingEntriesRangeChecked ==
    pass = "ok" =>
      /\ \A i \in 1..Len(findings) :
           findings[i].message \in {RangeUid, RangeGid} =>
             \E n \in 1..Len(lxc_configs) : \E kind \in {"u", "g"} :
               \E k \in 1..Len(IF kind = "u" THEN host_mapping.subuid
                               ELSE host_mapping.subgid) :
                 findings[i] =
                   Finding("Bad", IF kind = "u" THEN RangeUid ELSE RangeGid,
                           <<(k - 1) + (IF kind = "u" THEN 0 ELSE Len(host_mapping.subuid))>>,
                           <<<<lxc_configs[n].filename, SubIDOf(kind)>>>>)
      /\ \A n \in 1..Len(lxc_configs) : \A kind \in {"u", "g"} :
           LET c == lxc_configs[n]
               mappings == IF kind = "u" THEN host_mapping.subuid ELSE host_mapping.subgid
               offset == IF kind = "u" THEN 0 ELSE Len(host_mapping.subuid)
               ls == KindLines(c.config, kind)
           IN \A k \in 1..Len(mappings) :
                LET id == IF kind = "u" THEN username_to_id(mappings[k].host_user_id)
                          ELSE groupname_to_id(mappings[k].host_user_id)
                IN RangeFindings(findings, (k - 1) + offset, c.filename, kind)
                   <= Cardinality({j \in 1..Len(ls) :
                                     is_some(id) /\ parse_u32(ls[j][2]) = id})

\* C24 witness: a completed pass over an unprivileged container with a u line
\* that reaches beyond the range of the only subuid entry, whose identity is
\* not the line's id: no range finding is emitted
C24_Witness ==
    /\ pass = "ok"
    /\ Len(host_mapping.subuid) = 1
    /\ \E n \in 1..Len(lxc_configs) :
         LET c == lxc_configs[n]
             ls == KindLines(c.config, "u")
             m == host_mapping.subuid[1]
         IN /\ Unprivileged(c.config)
            /\ Len(ls) = 1
            /\ parse_u32(ls[1][2]) # username_to_id(m.host_user_id)
            /\ unwrap(parse_u32(ls[1][3])) + unwrap(parse_u32(ls[1][4]))
                 > m.host_sub_id + m.host_sub_id_count
            /\ RangeFindings(findings, 0, c.filename, "u") = 0

-----------------------------------------------------------------------------
(* The range check of State::evaluate_findings on its own: the four u32
   operands are drawn from both ends of the u32 range, in both build
   profiles *)

\* u32 values at both ends of the range
U32Values == {0, 1, 2, U32_MODULUS - 2, U32_MODULUS - 1}

\* the condition at lines 240-243 on one lxc.idmap line and one host entry
RangeCheck ==
    /\ is_some(range_case)
    /\ range_out = None
    /\ range_out' = Some(range_verdict(unwrap(range_case).parsed_host_sub_id,
                                       unwrap(range_case).parsed_host_sub_id_size,
                                       unwrap(range_case).mapping))
    /\ UNCHANGED range_case
    /\ UNCHANGED state_vars
    /\ UNCHANGED app_vars
    /\ UNCHANGED store_vars
    /\ UNCHANGED pipeline_vars
    /\ UNCHANGED poll_vars

RangeInit ==
    /\ range_case \in {Some([parsed_host_sub_id |-> start,
                             parsed_host_sub_id_size |-> count,
                             mapping |-> IdMapEntry("root", sub_id, sub_id_count)]) :
                         start \in U32Values, count \in U32Values,
                         sub_id \in U32Values, sub_id_count \in U32Values}
    /\ range_out = None
    /\ is_pve = TRUE
    /\ overflow_checks \in BOOLEAN
    /\ host_mapping = [subuid |-> <<>>, subgid |-> <<>>]
    /\ lxc_configs = <<>>
    /\ fs_metadata = EmptyIndex
    /\ StateDefault
    /\ AppNew
    /\ StoreIdle
    /\ PipelineIdle
    /\ PollIdle

RangeNext == RangeCheck

RangeSpec == RangeInit /\ [][RangeNext]_vars

\* the range condition of the code with unbounded integers
ExactVerdict(start, count, m) ==
    IF \/ start < m.host_sub_id
       \/ start > m.host_sub_id + m.host_sub_id_count
       \/ start + count > m.host_sub_id + m.host_sub_id_count
    THEN "bad"
    ELSE "ok"

\* C30: for all u32 values of an lxc.idmap line's start and count and of a
\* host entry's host_sub_id and host_sub_id_count the sums of the range check
\* do not overflow 32 bits, so the verdict is the one computed with unbounded
\* integers and the evaluation does not abort
C30_RangeSumsDoNotOverflow ==
    is_some(range_out) =>
      unwrap(range_out) = ExactVerdict(unwrap(range_case).parsed_host_sub_id,
                                       unwrap(range_case).parsed_host_sub_id_size,
                                       unwrap(range_case).mapping)

-----------------------------------------------------------------------------
(* The selection of the findings list: key events and host-file Updates reach
   the event loop through the same channel *)

KeyCodes == {"Up", "Down", "PageUp", "PageDown"}

\* /etc/subuid with no, one and two repeated entries for root
SubuidTexts == {"root:1:2\n", "root:1:2\n\nroot:3:4\n", "root:1:2\nroot:3:4\nroot:5:6\n"}

\* the terminal thread sends a key event
SendKey ==
    /\ app_status = "running"
    /\ sent < MaxEvents
    /\ \E code \in KeyCodes : events' = Append(events, Key(code))
    /\ sent' = sent + 1
    /\ UNCHANGED <<app_status, app_host_mapping, app_lxc_configs, app_findings, handled,
                   selected_finding>>
    /\ UNCHANGED state_vars
    /\ UNCHANGED store_vars
    /\ UNCHANGED pipeline_vars
    /\ UNCHANGED poll_vars
    /\ UNCHANGED range_vars

\* the Reader sends an Update for /etc/subuid
SendSubuid ==
    /\ app_status = "running"
    /\ sent < MaxEvents
    /\ \E content \in SubuidTexts : events' = Append(events, Update(ETC_SUBUID, content))
    /\ sent' = sent + 1
    /\ UNCHANGED <<app_status, app_host_mapping, app_lxc_configs, app_findings, handled,
                   selected_finding>>
    /\ UNCHANGED state_vars
    /\ UNCHANGED store_vars
    /\ UNCHANGED pipeline_vars
    /\ UNCHANGED poll_vars
    /\ UNCHANGED range_vars

KeyNext == SendKey \/ SendSubuid \/ HandleEvents

KeySpec == AppInit /\ [][KeyNext]_vars

\* C29: after any sequence of key events (Up, Down, PageUp, PageDown) and
\* filesystem events that trigger a findings recomputation, selected_finding
\* is either None or an index strictly less than the length of the findings
\* list
C29_SelectionWithinFindings ==
    is_some(selected_finding) => unwrap(selected_finding) < Len(app_findings)

-----------------------------------------------------------------------------
(* fs::monitor::MonitorHandler: the thread that polls the owner of the
   registered rootfs directories *)

\* rootfs values of container configs: two that resolve to a zfs mountpoint
\* and one on a storage that is not supported
RootfsValues ==
    {"local-zfs:subvol-100-disk-0,size=4G", "local-zfs:data", "local-lvm:vm-101-disk-0"}

\* the directories the rootfs values resolve to
PollPaths == {RootfsPath, "/rpool/data"}

\* owners a directory can have: they differ in the uid, in the gid, in both
PollOwners == Owners \cup {[uid |-> 2, gid |-> 1]}

\* FileSystemChangeKind::UpdateDir(rootfs_value, path, md)
UpdateDir(rootfs_value, path, md) ==
    [kind |-> "UpdateDir", rootfs_value |-> rootfs_value, path |-> path, md |-> md]

\* the variables of the evaluator the file system is not part of
eval_vars == <<is_pve, overflow_checks, host_mapping, lxc_configs, findings, pass,
               emitted, clean_passes, lookups>>

\* MonitorHandler::watch_rootfs: the value is sent to the poll thread
WatchRootfs ==
    /\ app_status = "running"
    /\ poll_pc # "panic"
    /\ Len(requested) < MaxRequests
    /\ \E rootfs_value \in RootfsValues :
         /\ dir_watcher_rx' = Append(dir_watcher_rx, rootfs_value)
         /\ requested' = Append(requested, rootfs_value)
    /\ UNCHANGED <<watch_paths, poll_pc, poll_sent>>
    /\ UNCHANGED state_vars
    /\ UNCHANGED app_vars
    /\ UNCHANGED store_vars
    /\ UNCHANGED pipeline_vars
    /\ UNCHANGED range_vars

\* the head of the loop of the poll thread, lines 110-139: one try_recv. A
\* value that resolves and can be stat'ed is inserted into paths and
\* announced; a failure continues the loop without the sleep; an empty
\* channel goes on to the sleep; a disconnected one panics
TryRecv ==
    /\ poll_pc = "recv"
    /\ IF Len(dir_watcher_rx) > 0
       THEN LET rootfs_value == Head(dir_watcher_rx)
                path == rootfs_value_to_path(rootfs_value)
                md == IF is_some(path) THEN metadata_of(fs_metadata, unwrap(path)) ELSE None
            IN IF ~is_some(path) \/ ~is_some(md)
               THEN /\ dir_watcher_rx' = Tail(dir_watcher_rx)
                    /\ poll_sent' = {}
                    /\ UNCHANGED <<watch_paths, poll_pc>>
               ELSE /\ dir_watcher_rx' = Tail(dir_watcher_rx)
                    /\ watch_paths' =
                         [p \in DOMAIN watch_paths \cup {unwrap(path)} |->
                            IF p = unwrap(path)
                            THEN [rootfs_value |-> rootfs_value, old_md |-> unwrap(md)]
                            ELSE watch_paths[p]]
                    /\ poll_sent' = {UpdateDir(rootfs_value, unwrap(path), unwrap(md))}
                    /\ poll_pc' = "sleep"
       ELSE /\ poll_pc' = IF app_status = "running" THEN "sleep" ELSE "panic"
            /\ poll_sent' = {}
            /\ UNCHANGED <<dir_watcher_rx, watch_paths>>
    /\ UNCHANGED requested
    /\ UNCHANGED state_vars
    /\ UNCHANGED app_vars
    /\ UNCHANGED store_vars
    /\ UNCHANGED pipeline_vars
    /\ UNCHANGED range_vars

\* variant: the snapshot is not replaced after a change
poll_entry_keeps_snapshot(path, entry, fsm) ==
    LET md == metadata_of(fsm, path)
    IN IF ~is_some(md) THEN [entry |-> entry, sent |-> {}]
       ELSE IF unwrap(md).gid # entry.old_md.gid \/ unwrap(md).uid # entry.old_md.uid
       THEN [entry |-> entry,
             sent |-> {UpdateDir(entry.rootfs_value, path, unwrap(md))}]
       ELSE [entry |-> entry, sent |-> {}]

\* the body of the loop over paths, lines 143-163: the entry it leaves and
\* the events it sends
poll_entry(path, entry, fsm) ==
    LET md == metadata_of(fsm, path)
    IN IF ~is_some(md) THEN [entry |-> entry, sent |-> {}]
       ELSE IF unwrap(md).gid # entry.old_md.gid \/ unwrap(md).uid # entry.old_md.uid
       THEN [entry |-> [entry EXCEPT !.old_md = unwrap(md)],
             sent |-> {UpdateDir(entry.rootfs_value, path, unwrap(md))}]
       ELSE [entry |-> entry, sent |-> {}]

\* the rest of the loop of the poll thread, lines 141-163: after the sleep
\* every entry of paths is stat'ed and compared with its snapshot
Poll ==
    /\ poll_pc = "sleep"
    /\ watch_paths' = [p \in DOMAIN watch_paths |->
                         poll_entry(p, watch_paths[p], fs_metadata).entry]
    /\ poll_sent' = UNION {poll_entry(p, watch_paths[p], fs_metadata).sent :
                             p \in DOMAIN watch_paths}
    /\ poll_pc' = "recv"
    /\ UNCHANGED <<dir_watcher_rx, requested>>
    /\ UNCHANGED state_vars
    /\ UNCHANGED app_vars
    /\ UNCHANGED store_vars
    /\ UNCHANGED pipeline_vars
    /\ UNCHANGED range_vars

\* the environment: a directory is chowned, removed or created
ChangeRootfs ==
    /\ \E path \in PollPaths :
         \/ /\ path \in DOMAIN fs_metadata
            /\ fs_metadata' = [p \in DOMAIN fs_metadata \ {path} |-> fs_metadata[p]]
         \/ \E o \in PollOwners :
              /\ metadata_of(fs_metadata, path) # Some(o)
              /\ fs_metadata' = [p \in DOMAIN fs_metadata \cup {path} |->
                                   IF p = path THEN o ELSE fs_metadata[p]]
    /\ UNCHANGED eval_vars
    /\ UNCHANGED app_vars
    /\ UNCHANGED store_vars
    /\ UNCHANGED pipeline_vars
    /\ UNCHANGED poll_vars
    /\ UNCHANGED range_vars

\* App::run returns: the App and its MonitorHandler are dropped, which
\* disconnects the registration channel
DropMonitor ==
    /\ app_status = "running"
    /\ app_status' = "quit"
    /\ UNCHANGED <<events, sent, app_host_mapping, app_lxc_configs, app_findings, handled,
                   selected_finding>>
    /\ UNCHANGED state_vars
    /\ UNCHANGED store_vars
    /\ UNCHANGED pipeline_vars
    /\ UNCHANGED poll_vars
    /\ UNCHANGED range_vars

\* MonitorHandler::new: the thread starts with an empty map
PollInit ==
    /\ PollIdle
    /\ fs_metadata = [p \in PollPaths |-> [uid |-> 1, gid |-> 1]]
    /\ is_pve = TRUE
    /\ overflow_checks = TRUE
    /\ host_mapping = [subuid |-> <<>>, subgid |-> <<>>]
    /\ lxc_configs = <<>>
    /\ StateDefault
    /\ AppNew
    /\ StoreIdle
    /\ PipelineIdle
    /\ RangeIdle

PollNext == WatchRootfs \/ TryRecv \/ Poll \/ ChangeRootfs \/ DropMonitor

PollSpec == PollInit /\ [][PollNext]_vars

-----------------------------------------------------------------------------
(* Properties of the poll thread *)

\* a step of the poll thread from the sleep through the loop over paths
PollStep == poll_pc = "sleep" /\ poll_pc' = "recv"

\* the tracked paths whose owner uid or gid is not the one of the snapshot
Changed ==
    {p \in DOMAIN watch_paths :
       /\ p \in DOMAIN fs_metadata
       /\ \/ fs_metadata[p].uid # watch_paths[p].old_md.uid
          \/ fs_metadata[p].gid # watch_paths[p].old_md.gid}

C26_FailedRegistrationIsRetried ==
    poll_pc # "panic" =>
      \A i \in 1..Len(requested) :
        \/ \E j \in 1..Len(dir_watcher_rx) : dir_watcher_rx[j] = requested[i]
        \/ \E p \in DOMAIN watch_paths : watch_paths[p].rootfs_value = requested[i]

\* C27: at each tick of the ownership poll loop all registration requests
\* pending on the channel are drained and added to the watch set before the
\* loop sleeps, however many were queued
C27_AllRequestsDrainedBeforeSleep ==
    [][(poll_pc = "recv" /\ poll_pc' = "sleep") => dir_watcher_rx' = <<>>]_vars

-----------------------------------------------------------------------------
(* fs::monitor::FileEventHandler (the Watcher) and fs::reader (the Reader) *)

\* notify::Event: the kind and the paths it carries; "Err" stands for the
\* Err(notify::Error) the handler can be called with
NotifyEvent(kind, event_paths) == [kind |-> kind, paths |-> event_paths]

\* variant: every file named *.conf is valid
is_valid_file_any_conf(path) ==
    \/ path = ETC_SUBGID
    \/ path = ETC_SUBUID
    \/ LET filename == file_name(path)
       IN is_some(filename) /\ ends_with(unwrap(filename), ".conf")

\* fs::monitor::is_valid_file
is_valid_file(path) ==
    \/ path = ETC_SUBGID
    \/ path = ETC_SUBUID
    \/ LET filename == file_name(path)
       IN /\ is_some(filename)
          /\ ends_with(unwrap(filename), ".conf")
          /\ LET prefix == SubSeq(unwrap(filename), 1, Len(unwrap(filename)) - 5)
             IN /\ Len(prefix) # 0
                /\ \A i \in 1..Len(prefix) : char_at(prefix, i) \in DOMAIN DigitValue

\* the body of the loop over event.paths: what one path adds to the two
\* channels; a send to a channel whose receiver is gone fails and is logged
handle_path(kind, path, out, reader_alive, app_alive) ==
    IF ~is_valid_file(path) THEN out
    ELSE IF kind \in {"Create(File)", "Modify(Data)"}
    THEN IF reader_alive THEN [out EXCEPT !.file_tx = Append(@, path)] ELSE out
    ELSE IF kind \in {"Modify(Name)", "Remove(File)"}
    THEN IF app_alive THEN [out EXCEPT !.events = Append(@, Remove(path))] ELSE out
    ELSE out

\* FileEventHandler::handle_event: the loop over the paths of an Ok event
RECURSIVE handle_event(_, _, _, _, _)
handle_event(event, i, out, reader_alive, app_alive) ==
    IF event.kind = "Err" \/ i > Len(event.paths) THEN out
    ELSE handle_event(event, i + 1,
                      handle_path(event.kind, event.paths[i], out, reader_alive, app_alive),
                      reader_alive, app_alive)

\* the notify thread calls the handler with its next event
HandleEvent ==
    /\ Len(native) > 0
    /\ \E out \in {handle_event(Head(native), 1, [file_tx |-> file_tx, events |-> events],
                                reader_status = "running", app_status = "running")} :
         /\ file_tx' = out.file_tx
         /\ events' = out.events
         /\ sent' = sent + (Len(out.events) - Len(events))
    /\ native' = Tail(native)
    /\ UNCHANGED <<disk, reader_status, fs_changes>>
    /\ UNCHANGED <<app_status, app_host_mapping, app_lxc_configs, app_findings, handled,
                   selected_finding>>
    /\ UNCHANGED state_vars
    /\ UNCHANGED store_vars
    /\ UNCHANGED poll_vars
    /\ UNCHANGED range_vars

\* std::fs::read_to_string: Ok(content) or Err
read_to_string(files, path) == IF path \in DOMAIN files THEN Some(files[path]) ELSE None

\* variant: a failed read ends the Reader
reader_start_stops_on_error(path, content, evs, app_alive) ==
    IF is_some(content)
    THEN [events |-> IF app_alive THEN Append(evs, Update(path, unwrap(content))) ELSE evs,
          status |-> "running"]
    ELSE [events |-> evs, status |-> "panic"]

\* the body of the loop of fs::reader::start for a received path: the app
\* channel afterwards and whether the Reader goes on
reader_start(path, content, evs, app_alive) ==
    IF is_some(content)
    THEN [events |-> IF app_alive THEN Append(evs, Update(path, unwrap(content))) ELSE evs,
          status |-> "running"]
    ELSE [events |-> evs, status |-> "running"]

\* one iteration of fs::reader::start: rx.recv() gives the next path, or Err
\* once the channel is empty and every sender is dropped (the App and its
\* Watcher are gone), which ends the loop in the panic
ReaderStart ==
    /\ reader_status = "running"
    /\ IF Len(file_tx) > 0
       THEN \E r \in {reader_start(Head(file_tx), read_to_string(disk, Head(file_tx)),
                                   events, app_status = "running")} :
              /\ events' = r.events
              /\ sent' = sent + (Len(r.events) - Len(events))
              /\ reader_status' = r.status
              /\ file_tx' = Tail(file_tx)
       ELSE /\ app_status # "running"
            /\ reader_status' = "panic"
            /\ UNCHANGED <<events, sent, file_tx>>
    /\ UNCHANGED <<disk, native, fs_changes>>
    /\ UNCHANGED <<app_status, app_host_mapping, app_lxc_configs, app_findings, handled,
                   selected_finding>>
    /\ UNCHANGED state_vars
    /\ UNCHANGED store_vars
    /\ UNCHANGED poll_vars
    /\ UNCHANGED range_vars

-----------------------------------------------------------------------------
(* The Watcher on its own: one notify event of every kind, with one or two
   paths *)

EventKinds ==
    {"Create(File)", "Create(Folder)", "Modify(Data)", "Modify(Metadata)", "Modify(Name)",
     "Remove(File)", "Remove(Folder)", "Access(Open)", "Err"}

\* paths of events: the host files, container configs, and names that are
\* not container configs
EventPaths ==
    {ETC_SUBUID, ETC_SUBGID, "/etc/pve/lxc/100.conf", "/tmp/7.conf", "/etc/pve/lxc/.conf",
     "/etc/pve/lxc/10a.conf", "/etc/pve/lxc/100.conf.tmp", "/etc/pve/lxc/notes.conf",
     "/etc/subuid-", "/etc/pve/lxc/100"}

WatcherInit ==
    /\ native \in {<<NotifyEvent(kind, ps)>> :
                     kind \in EventKinds,
                     ps \in {<<p>> : p \in EventPaths}
                            \cup {<<p, q>> : p \in EventPaths, q \in {ETC_SUBUID, "/tmp/7.conf", "/etc/pve/lxc/100"}}}
    /\ disk = EmptyIndex
    /\ file_tx = <<>>
    /\ reader_status = "running"
    /\ fs_changes = 0
    /\ is_pve = TRUE
    /\ overflow_checks = TRUE
    /\ host_mapping = [subuid |-> <<>>, subgid |-> <<>>]
    /\ lxc_configs = <<>>
    /\ fs_metadata = EmptyIndex
    /\ StateDefault
    /\ AppNew
    /\ StoreIdle
    /\ PollIdle
    /\ RangeIdle

WatcherNext == HandleEvent

WatcherSpec == WatcherInit /\ [][WatcherNext]_vars

-----------------------------------------------------------------------------
(* Properties of the Watcher and the Reader *)

\* the name is one or more ASCII digits followed by .conf
DigitsConf(name) ==
    \E n \in 1..Len(name) :
      /\ name = SubSeq(name, 1, n) \o ".conf"
      /\ \A i \in 1..n : SubSeq(name, i, i) \in {"0", "1", "2", "3", "4", "5", "6", "7", "8", "9"}

\* the path is /etc/subuid, /etc/subgid or a file named <digits>.conf
Watched(path) ==
    \/ path \in {"/etc/subuid", "/etc/subgid"}
    \/ \E i \in 1..Len(path) :
         /\ SubSeq(path, i, i) = "/"
         /\ \A j \in (i + 1)..Len(path) : SubSeq(path, j, j) # "/"
         /\ DigitsConf(SubSeq(path, i + 1, Len(path)))

\* what the paths of an event are to send, in the order of the paths
Requests(event) ==
    IF event.kind \in {"Create(File)", "Modify(Data)"}
    THEN SelectSeq(event.paths, Watched)
    ELSE <<>>

Removals(event) ==
    IF event.kind \in {"Modify(Name)", "Remove(File)"}
    THEN LET ps == SelectSeq(event.paths, Watched)
         IN [i \in 1..Len(ps) |-> Remove(ps[i])]
    ELSE <<>>

\* C21: for every path carried by a native filesystem event: a path that is
\* not /etc/subuid, /etc/subgid or a file named <digits>.conf sends nothing;
\* otherwise a file-create or data-modify event sends exactly one read
\* request for the path and no app event, a rename or file-remove event
\* sends exactly one removal event to the app and no read request, and any
\* other event kind sends nothing
C21_WatcherDispatch ==
    [][HandleEvent =>
         /\ file_tx' = file_tx \o Requests(Head(native))
         /\ events' = events \o Removals(Head(native))]_vars

\* C21 witness: the handler has taken a rename or file-remove event that
\* carries one watched file, and sent one removal and no read request
C21_Witness ==
    /\ native = <<>>
    /\ file_tx = <<>>
    /\ events = <<Remove("/tmp/7.conf")>>

-----------------------------------------------------------------------------
(* The pipeline: the watched files change on disk, the Watcher and the
   Reader feed the event loop *)

ConfA == "unprivileged: 1\n"
ConfB == "unprivileged: 0\n"

\* what can be written where: two contents for 100.conf, one for 101.conf
Writes ==
    {<<"/etc/pve/lxc/100.conf", ConfA>>, <<"/etc/pve/lxc/100.conf", ConfB>>,
     <<"/etc/pve/lxc/101.conf", ConfA>>}

\* the environment changes a container config, and inotify queues the event
\* for the notify thread: a file is written (created or modified), removed,
\* or put in place by renaming a temporary file onto it
FsChange ==
    /\ app_status = "running"
    /\ fs_changes < MaxFsChanges
    /\ fs_changes' = fs_changes + 1
    /\ \/ \E w \in Writes :
            /\ read_to_string(disk, w[1]) # Some(w[2])
            /\ disk' = [p \in DOMAIN disk \cup {w[1]} |-> IF p = w[1] THEN w[2] ELSE disk[p]]
            /\ native' = Append(native,
                                NotifyEvent(IF w[1] \in DOMAIN disk THEN "Modify(Data)"
                                            ELSE "Create(File)", <<w[1]>>))
       \/ \E path \in DOMAIN disk :
            /\ path_starts_with(path, PVE_CONF_DIR)
            /\ disk' = [p \in DOMAIN disk \ {path} |-> disk[p]]
            /\ native' = Append(native, NotifyEvent("Remove(File)", <<path>>))
       \/ \E w \in {<<"/etc/pve/lxc/100.conf", ConfB>>} :
            /\ read_to_string(disk, w[1]) # Some(w[2])
            /\ disk' = [p \in DOMAIN disk \cup {w[1]} |-> IF p = w[1] THEN w[2] ELSE disk[p]]
            /\ native' = Append(native, NotifyEvent("Modify(Name)", <<w[1]>>))
    /\ UNCHANGED <<file_tx, reader_status>>
    /\ UNCHANGED app_vars
    /\ UNCHANGED state_vars
    /\ UNCHANGED store_vars
    /\ UNCHANGED poll_vars
    /\ UNCHANGED range_vars

\* App::initialize: read requests for the host files and for every valid
\* file of the config directory
initialize(files) ==
    <<ETC_SUBUID, ETC_SUBGID>>
    \o (IF "/etc/pve/lxc/100.conf" \in DOMAIN files /\ is_valid_file("/etc/pve/lxc/100.conf")
        THEN <<"/etc/pve/lxc/100.conf">>
        ELSE <<>>)

\* App::new and App::initialize on a host with /etc/subuid, without
\* /etc/subgid, and with or without the container config 100.conf
PipelineInit ==
    /\ disk \in {ETC_SUBUID :> "root:1:2\n",
                 ETC_SUBUID :> "root:1:2\n" @@ "/etc/pve/lxc/100.conf" :> ConfA}
    /\ native = <<>>
    /\ file_tx = initialize(disk)
    /\ reader_status = "running"
    /\ fs_changes = 0
    /\ is_pve = TRUE
    /\ overflow_checks = TRUE
    /\ host_mapping = [subuid |-> <<>>, subgid |-> <<>>]
    /\ lxc_configs = <<>>
    /\ fs_metadata = EmptyIndex
    /\ StateDefault
    /\ AppNew
    /\ StoreIdle
    /\ PollIdle
    /\ RangeIdle

PipelineNext == FsChange \/ HandleEvent \/ ReaderStart \/ HandleEvents

PipelineSpec == PipelineInit /\ [][PipelineNext]_vars

-----------------------------------------------------------------------------
(* Properties of the pipeline *)

\* C22: for each path the Reader receives from its queue it emits exactly
\* one Update(path, content) event if the read succeeds and no event if the
\* read fails, then continues with the next path; Update events are emitted
\* in the order their paths were received, and the Reader only stops when
\* the request queue is disconnected, never because a read or an event send
\* failed
C22_ReaderOneUpdatePerReadablePath ==
    [][ReaderStart =>
         IF Len(file_tx) > 0
         THEN /\ file_tx' = Tail(file_tx)
              /\ reader_status' = "running"
              /\ events' = IF Head(file_tx) \in DOMAIN disk /\ app_status = "running"
                           THEN Append(events, Update(Head(file_tx), disk[Head(file_tx)]))
                           ELSE events
         ELSE /\ app_status # "running"
              /\ events' = events]_vars

\* C22 witness: the Reader has received /etc/subuid, /etc/subgid and 100.conf
\* in this order, the read of /etc/subgid has failed, and the two Updates
\* are in the app channel in the order of their paths
C22_Witness ==
    /\ reader_status = "running"
    /\ file_tx = <<>>
    /\ fs_changes = 0
    /\ ETC_SUBGID \notin DOMAIN disk
    /\ events = <<Update(ETC_SUBUID, disk[ETC_SUBUID]),
                  Update("/etc/pve/lxc/100.conf", ConfA)>>

\* the container config files on disk
ConfigFiles == {p \in DOMAIN disk : path_starts_with(p, PVE_CONF_DIR) /\ Watched(p)}

\* C28: under every interleaving of the Watcher, Reader and event-loop
\* threads, once filesystem activity has stopped and all queued read requests
\* and events have been processed, the filenames in the config map are those
\* of the valid container config files on disk, and each stored config is
\* the parse of that file's current content
C28_QuiescentMapMatchesDisk ==
    (native = <<>> /\ file_tx = <<>> /\ events = <<>>) =>
      /\ {app_lxc_configs[n].filename : n \in 1..Len(app_lxc_configs)}
         = {unwrap(file_name(p)) : p \in ConfigFiles}
      /\ \A n \in 1..Len(app_lxc_configs) : \A p \in ConfigFiles :
           file_name(p) = Some(app_lxc_configs[n].filename) =>
             app_lxc_configs[n].config = proxmox_from_str(disk[p])

====
